---- MODULE Spec2Model ----
(***************************************************************************)
(* Promise evaluation engine of self-promise: the rule based evaluator     *)
(* (src/evaluator/rule_based.py) and the elevated heart rate detector      *)
(* (src/terra_api/client.py).                                              *)
(*                                                                         *)
(* A datetime is an integer: the number of minutes since 2022-12-01 00:00. *)
(* The smallest step of the model's clock (one unit) stands for the        *)
(* smallest step of a Python datetime, timedelta(microseconds=1).          *)
(***************************************************************************)
EXTENDS Integers, Sequences, FiniteSets, TLC

VARIABLES
    pc,               \* "ready" before the call, "done" after it has returned,
                      \* "raised" after it has raised, "loop" inside a loop
    promise,          \* evaluate: the promise argument
    evidence,         \* evaluate: the evidence argument
    grouped,          \* the list of items handed to _group_by_period
    periods,          \* the dict _group_by_period returned
    verdict,          \* the dict evaluate returned
    sorted_sessions,  \* _evaluate_exercise_consistency: the sessions, sorted
    args,             \* check_continuous_elevated_heart_rate: its arguments and data
    elevated_periods, \* check_continuous_elevated_heart_rate: the list it returned
    raised,           \* the exception the call raised, "none" when it raised none
    cursor,           \* _group_by_period: current_date, the cursor of the generation loop
    iterations,       \* _group_by_period: the iterations of the generation loop so far
    evaluators,       \* EvaluatorRegistry._evaluators: the table, name -> class
    imported,         \* the evaluator modules the process has imported
    calls,            \* the calls of EvaluatorRegistry.register so far, in order
    lookup,           \* the last call of get_evaluator: name, returned instance
    service,          \* the last construction of SelfPromiseService and its outcome
    trackers_json,    \* the file trackers.json of the configuration directory
    cli_args,         \* create-promise: its options, the answer to its prompt, the disk
    cli_run,          \* create-promise: what the command did
    network,          \* what the node answers to the checks of is_network_ready
    node,             \* what the node does in each attempt of a call
    receipt_args,     \* get_event_from_receipt: its arguments
    receipt_run,      \* get_event_from_receipt: what it returned, its receipt waits
    create_args,      \* service create_promise: max_attempts, network and node per attempt
    create_run        \* service create_promise: transactions, events, outcome

registry_vars == <<evaluators, imported, calls, lookup, service>>

cli_vars == <<trackers_json, cli_args, cli_run>>

chain_vars == <<network, node, receipt_args, receipt_run, create_args, create_run>>

service_vars == <<registry_vars, cli_vars, chain_vars>>

\* The arguments and results of an evaluation
evaluation_data == <<promise, evidence, grouped, periods, verdict, sorted_sessions,
                     args, elevated_periods, raised, cursor, iterations>>


vars == <<pc, promise, evidence, grouped, periods, verdict, sorted_sessions, args,
          elevated_periods, raised, cursor, iterations, service_vars>>

----------------------------------------------------------------------------
(* Bounds of the model.                                                    *)

\* The inputs' days are FirstDay .. FirstDay + MaxDay: Saturday 2022-12-31,
\* Sunday 2023-01-01 (a month and a year begin), Monday 2023-01-02 (a week begins).
MaxDay == 2

\* Longest list of sessions / intervals in the evidence.
MaxItems == 2

\* Longest heart rate series handed to the detector.
MaxSamples == 6

\* Longest heart rate series in the evidence of an evaluation.
MaxHrSamples == 3

----------------------------------------------------------------------------
(* datetime / timedelta arithmetic                                         *)

MinutesPerDay == 24 * 60

\* The day the clock starts at, 2022-12-01, and its datetime.weekday() (Thursday).
Epoch == [year |-> 2022, month |-> 12, weekday |-> 3]

\* The first day inputs are drawn from, as a day number: 2022-12-31.
FirstDay == 31 - 1

\* The times of day inputs are drawn from: 00:00 and 23:50.
TimesOfDay == {0, 23 * 60 + 50}

\* The `frequency` parameters promises are drawn from.
Frequencies == {1, 2}

IsLeap(y) == (y % 4 = 0 /\ y % 100 # 0) \/ y % 400 = 0

DaysInMonth(y, m) ==
    IF m = 2 THEN (IF IsLeap(y) THEN 29 ELSE 28)
    ELSE IF m \in {4, 6, 9, 11} THEN 30 ELSE 31

\* timedelta(days=n)
Timedelta(n) == n * MinutesPerDay

\* The date [year, month, day] of the n-th day (from 0) counted from the 1st of
\* month m of year y.
RECURSIVE DateFrom(_, _, _)
DateFrom(y, m, n) ==
    IF n < DaysInMonth(y, m) THEN [year |-> y, month |-> m, day |-> n + 1]
    ELSE IF m = 12 THEN DateFrom(y + 1, 1, n - DaysInMonth(y, m))
    ELSE DateFrom(y, m + 1, n - DaysInMonth(y, m))

\* date.year, date.month, date.day of a datetime
DateOf(t) == DateFrom(Epoch.year, Epoch.month, t \div MinutesPerDay)

\* Days from the 1st of month m of year y to the 1st of month tm of year ty.
RECURSIVE DaysUntil(_, _, _, _)
DaysUntil(y, m, ty, tm) ==
    IF y = ty /\ m = tm THEN 0
    ELSE IF m = 12 THEN DaysInMonth(y, m) + DaysUntil(y + 1, 1, ty, tm)
    ELSE DaysInMonth(y, m) + DaysUntil(y, m + 1, ty, tm)

\* datetime.datetime(y, m, d): midnight of that day
Datetime(y, m, d) ==
    Timedelta(DaysUntil(Epoch.year, Epoch.month, y, m) + d - 1)

\* date.weekday(): Monday is 0
Weekday(t) == (Epoch.weekday + (t \div MinutesPerDay)) % 7

\* date - date in whole days: timedelta.days, which rounds down
DaysBetween(later, earlier) == (later - earlier) \div MinutesPerDay

\* timedelta(microseconds=1): the smallest step of the clock
Microsecond == 1

----------------------------------------------------------------------------
(* RuleBasedEvaluator._get_period_start / _get_period_end                  *)

Granularities == {"day", "week", "month"}

GetPeriodStart(date, period) ==
    LET d == DateOf(date)
    IN  IF period = "day" THEN Datetime(d.year, d.month, d.day)
        ELSE IF period = "week" THEN date - Timedelta(Weekday(date))
        ELSE IF period = "month" THEN Datetime(d.year, d.month, 1)
        ELSE date

\* datetime(year, month + 1, 1), or datetime(year + 1, 1, 1) after December
FirstOfNextMonth(date) ==
    LET d == DateOf(date)
    IN  IF d.month = 12 THEN Datetime(d.year + 1, 1, 1)
        ELSE Datetime(d.year, d.month + 1, 1)

GetPeriodEnd(period_start, period) ==
    IF period = "day" THEN period_start + Timedelta(1) - Microsecond
    ELSE IF period = "week" THEN period_start + Timedelta(7) - Microsecond
    ELSE IF period = "month" THEN FirstOfNextMonth(period_start) - Microsecond
    ELSE period_start + Timedelta(1) - Microsecond

----------------------------------------------------------------------------
(* RuleBasedEvaluator._group_by_period                                     *)
(* `periods` is a Python dict in insertion order: a sequence of            *)
(* [start, items] entries with distinct keys.  A bucket holds the items    *)
(* themselves (references), modelled as their indices in the input list.   *)

HasKey(dict, k) == \E i \in 1..Len(dict) : dict[i].start = k

\* periods[k] = []
DictReset(dict, k) ==
    IF HasKey(dict, k)
      THEN [i \in 1..Len(dict) |->
              IF dict[i].start = k THEN [start |-> k, items |-> <<>>] ELSE dict[i]]
      ELSE Append(dict, [start |-> k, items |-> <<>>])

\* A grouping that appends to the period of the key and to every earlier one.
DictAppend_Earlier(dict, k, x) ==
    [i \in 1..Len(dict) |->
        IF dict[i].start <= k
          THEN [start |-> dict[i].start, items |-> Append(dict[i].items, x)]
          ELSE dict[i]]

\* periods[k].append(x)
DictAppend(dict, k, x) ==
    [i \in 1..Len(dict) |->
        IF dict[i].start = k
          THEN [start |-> k, items |-> Append(dict[i].items, x)]
          ELSE dict[i]]

\* "Move to the next period"
NextCursor(current_date, period) ==
    IF period = "day" THEN current_date + Timedelta(1)
    ELSE IF period = "week" THEN current_date + Timedelta(7)
    ELSE IF period = "month" THEN FirstOfNextMonth(current_date)
    ELSE current_date

\* while current_date <= end_date: ...
RECURSIVE GeneratePeriods(_, _, _, _)
GeneratePeriods(dict, current_date, end_date, period) ==
    IF current_date <= end_date
      THEN GeneratePeriods(DictReset(dict, GetPeriodStart(current_date, period)),
                           NextCursor(current_date, period), end_date, period)
      ELSE dict

\* for item in items: ...   (items from index i on)
RECURSIVE GroupItems(_, _, _, _)
GroupItems(dict, items, i, period) ==
    IF i > Len(items) THEN dict
    ELSE LET period_start == GetPeriodStart(items[i].start_time, period)
         IN  GroupItems(IF HasKey(dict, period_start)
                          THEN DictAppend(dict, period_start, i)
                          ELSE dict,
                        items, i + 1, period)

GroupByPeriod(items, period, start_date, end_date) ==
    GroupItems(GeneratePeriods(<<>>, start_date, end_date, period), items, 1, period)

----------------------------------------------------------------------------
(* RuleBasedEvaluator._evaluate_exercise_frequency                         *)

\* The details["periods"] entries, one per generated period, in order.
FrequencyPeriodDetails(dict, period, frequency) ==
    [i \in 1..Len(dict) |->
        [period_start   |-> dict[i].start,
         period_end     |-> GetPeriodEnd(dict[i].start, period),
         sessions_count |-> Len(dict[i].items),
         required_count |-> frequency,
         fulfilled      |-> Len(dict[i].items) >= frequency]]

\* A count of the periods that hold any item at all.
CountFulfilled_NonEmpty(dict, frequency) ==
    Cardinality({i \in 1..Len(dict) : Len(dict[i].items) >= 1})

CountFulfilled(dict, frequency) ==
    Cardinality({i \in 1..Len(dict) : Len(dict[i].items) >= frequency})

\* A verdict that is fulfilled when there is no period at all.
PercentageIsFull_Vacuous(fulfilled_periods, total_periods) ==
    fulfilled_periods >= total_periods

\* A verdict with a percentage threshold: half of the periods are enough.
PercentageIsHalf(fulfilled_periods, total_periods) ==
    IF total_periods > 0 THEN 2 * fulfilled_periods >= total_periods ELSE FALSE

\* fulfillment_percentage >= 1.0, with the percentage 0 when there is no period
PercentageIsFull(fulfilled_periods, total_periods) ==
    IF total_periods > 0 THEN fulfilled_periods >= total_periods ELSE FALSE

\* The value that the reasoning formats as a percentage, as a fraction.
FulfillmentPercentage(fulfilled_periods, total_periods) ==
    IF total_periods > 0 THEN <<fulfilled_periods, total_periods>> ELSE <<0, 1>>

\* The returned dict.  A confidence is in hundredths: 1.0 is 100.  A reasoning
\* is the sequence of the parts of its f-string.
EvaluateExerciseFrequencyResult(p, e, dict) ==
    [fulfilled  |-> PercentageIsFull(CountFulfilled(dict, p.frequency), Len(dict)),
     confidence |-> 100,
     reasoning  |-> <<"The promise required exercising ", p.frequency, " times per ",
                      p.period, ". You met this requirement in ",
                      CountFulfilled(dict, p.frequency), " out of ", Len(dict), " ",
                      p.period, "s (",
                      FulfillmentPercentage(CountFulfilled(dict, p.frequency), Len(dict)),
                      ").">>,
     details    |-> [periods           |-> FrequencyPeriodDetails(dict, p.period, p.frequency),
                     total_periods     |-> Len(dict),
                     fulfilled_periods |-> CountFulfilled(dict, p.frequency)]]

----------------------------------------------------------------------------
(* TerraApiClient.check_continuous_elevated_heart_rate                     *)
(* A heart rate series is a sequence of [timestamp, heart_rate].  An       *)
(* average is the exact fraction <<sum, count>>.                           *)

\* current_period_start = None
None == 0 - 1

\* The registry just after interface.py has been imported: _evaluators = {}
RegistryIdle ==
    /\ evaluators = <<>>
    /\ imported = {}
    /\ calls = <<>>
    /\ lookup = <<>>
    /\ service = <<>>

\* No command has run and no tracker is connected
CliIdle ==
    /\ trackers_json = "absent"
    /\ cli_args = <<>>
    /\ cli_run = <<>>

\* No call of the Sapphire client or of the service is under way
ChainIdle ==
    /\ network = "ok"
    /\ node = <<>>
    /\ receipt_args = <<>>
    /\ receipt_run = <<>>
    /\ create_args = <<>>
    /\ create_run = <<>>

\* The components that take no part in an evaluation
ServicesIdle == RegistryIdle /\ CliIdle /\ ChainIdle

\* average_heart_rate >= n, average_heart_rate = n / d for a fraction
AtLeast(avg, n) == avg[1] >= n * avg[2]
EqualTo(avg, n, d) == avg[1] * d = n * avg[2]

RECURSIVE SumSeq(_, _)
SumSeq(xs, i) == IF i > Len(xs) THEN 0 ELSE xs[i] + SumSeq(xs, i + 1)

\* An average that leaves out the sample at end_time.
CalculateAverageHr_OpenEnd(hr_data, start_time, end_time) ==
    LET relevant_data ==
            SelectSeq(hr_data, LAMBDA d : start_time <= d.timestamp /\ d.timestamp < end_time)
    IN  IF Len(relevant_data) = 0 THEN <<0, 1>>
        ELSE <<SumSeq([i \in 1..Len(relevant_data) |-> relevant_data[i].heart_rate], 1),
               Len(relevant_data)>>

\* TerraApiClient._calculate_average_hr
CalculateAverageHr(hr_data, start_time, end_time) ==
    LET relevant_data ==
            SelectSeq(hr_data, LAMBDA d : start_time <= d.timestamp /\ d.timestamp <= end_time)
    IN  IF Len(relevant_data) = 0 THEN <<0, 1>>
        ELSE <<SumSeq([i \in 1..Len(relevant_data) |-> relevant_data[i].heart_rate], 1),
               Len(relevant_data)>>

\* A qualification that wants more than the minimum duration.
Qualifies_Strict(period_duration, min_duration_minutes) ==
    period_duration > min_duration_minutes

\* period_duration >= min_duration_minutes
Qualifies(period_duration, min_duration_minutes) ==
    period_duration >= min_duration_minutes

\* A period whose duration leaves out its last minute.
ElevatedPeriod_Short(hr_data, current_period_start, timestamp) ==
    [start_time         |-> current_period_start,
     end_time           |-> timestamp,
     duration_minutes   |-> timestamp - current_period_start - 1,
     average_heart_rate |-> CalculateAverageHr(hr_data, current_period_start, timestamp)]

\* The dict appended for the period from current_period_start to timestamp.
ElevatedPeriod(hr_data, current_period_start, timestamp) ==
    [start_time         |-> current_period_start,
     end_time           |-> timestamp,
     duration_minutes   |-> timestamp - current_period_start,
     average_heart_rate |-> CalculateAverageHr(hr_data, current_period_start, timestamp)]

\* An end of the data that drops the period that is still open.
EndOfData_Discard(hr_data, current_period_start, out, min_duration_minutes) ==
    out

\* "Check if we have an ongoing period at the end of the data"
EndOfData(hr_data, current_period_start, out, min_duration_minutes) ==
    IF current_period_start # None
         /\ Qualifies(hr_data[Len(hr_data)].timestamp - current_period_start,
                      min_duration_minutes)
      THEN Append(out, ElevatedPeriod(hr_data, current_period_start,
                                      hr_data[Len(hr_data)].timestamp))
      ELSE out

\* for i, data_point in enumerate(hr_data): ...  (from index i on), then the
\* check for a period that is still open at the end of the data.
RECURSIVE Sweep(_, _, _, _, _, _)
Sweep(hr_data, i, current_period_start, out, threshold, min_duration_minutes) ==
    IF i > Len(hr_data)
      THEN EndOfData(hr_data, current_period_start, out, min_duration_minutes)
    ELSE IF hr_data[i].heart_rate >= threshold
      THEN Sweep(hr_data, i + 1,
                 IF current_period_start = None THEN hr_data[i].timestamp
                 ELSE current_period_start,
                 out, threshold, min_duration_minutes)
    ELSE IF current_period_start # None
      THEN Sweep(hr_data, i + 1, None,
                 IF Qualifies(hr_data[i].timestamp - current_period_start,
                              min_duration_minutes)
                   THEN Append(out, ElevatedPeriod(hr_data, current_period_start,
                                                   hr_data[i].timestamp))
                   ELSE out,
                 threshold, min_duration_minutes)
    ELSE Sweep(hr_data, i + 1, None, out, threshold, min_duration_minutes)

Detector(hr_data, threshold, min_duration_minutes) ==
    Sweep(hr_data, 1, None, <<>>, threshold, min_duration_minutes)

----------------------------------------------------------------------------
(* RuleBasedEvaluator._evaluate_exercise_duration                          *)

\* An evidence that runs the detector on heart_rate_data when it has no
\* elevated_hr_periods entry.
ElevatedHrPeriods_Detect(p, e) ==
    IF "elevated_hr_periods" \in DOMAIN e THEN e.elevated_hr_periods
    ELSE Detector(e.heart_rate_data, p.heart_rate_threshold, p.duration_minutes)

\* evidence.get("elevated_hr_periods", [])
ElevatedHrPeriods(p, e) ==
    IF "elevated_hr_periods" \in DOMAIN e THEN e.elevated_hr_periods ELSE <<>>

\* "Filter periods that meet the criteria"
QualifyingPeriods(elevated, heart_rate_threshold, duration_minutes) ==
    SelectSeq(elevated, LAMBDA x :
        /\ AtLeast(x.average_heart_rate, heart_rate_threshold)
        /\ x.duration_minutes >= duration_minutes)

DurationPeriodDetails(dict, period, frequency) ==
    [i \in 1..Len(dict) |->
        [period_start        |-> dict[i].start,
         period_end          |-> GetPeriodEnd(dict[i].start, period),
         qualifying_sessions |-> Len(dict[i].items),
         required_count      |-> frequency,
         fulfilled           |-> Len(dict[i].items) >= frequency]]

EvaluateExerciseDurationResult(p, qualifying_periods, dict) ==
    [fulfilled  |-> PercentageIsFull(CountFulfilled(dict, p.frequency), Len(dict)),
     confidence |-> 100,
     reasoning  |-> <<"The promise required exercising with a heart rate above ",
                      p.heart_rate_threshold, " bpm for at least ", p.duration_minutes,
                      " minutes, ", p.frequency, " times per ", p.period,
                      ". You met this requirement in ",
                      CountFulfilled(dict, p.frequency), " out of ", Len(dict), " ",
                      p.period, "s (",
                      FulfillmentPercentage(CountFulfilled(dict, p.frequency), Len(dict)),
                      ").">>,
     details    |-> [periods             |-> DurationPeriodDetails(dict, p.period, p.frequency),
                     total_periods       |-> Len(dict),
                     fulfilled_periods   |-> CountFulfilled(dict, p.frequency),
                     qualifying_sessions |-> Len(qualifying_periods)]]

\* The verdict of _evaluate_exercise_duration for a promise and an evidence.
DurationVerdict(p, e) ==
    LET qualifying_periods ==
            QualifyingPeriods(ElevatedHrPeriods(p, e), p.heart_rate_threshold,
                              p.duration_minutes)
        dict == GroupByPeriod(qualifying_periods, p.period, p.start_date, p.end_date)
    IN  EvaluateExerciseDurationResult(p, qualifying_periods, dict)

----------------------------------------------------------------------------
(* RuleBasedEvaluator._evaluate_exercise_consistency                       *)

\* sorted(exercise_sessions, key=start_time): a stable sort
RECURSIVE InsertSorted(_, _)
InsertSorted(sorted, x) ==
    IF Len(sorted) = 0 THEN <<x>>
    ELSE IF sorted[Len(sorted)].start_time <= x.start_time THEN Append(sorted, x)
    ELSE Append(InsertSorted(SubSeq(sorted, 1, Len(sorted) - 1), x), sorted[Len(sorted)])

RECURSIVE SortByStart(_, _)
SortByStart(sessions, n) ==
    IF n = 0 THEN <<>> ELSE InsertSorted(SortByStart(sessions, n - 1), sessions[n])

\* A check that also records a gap of exactly max_gap_days.
ExceedsGap_Inclusive(gap_days, max_gap_days) == gap_days >= max_gap_days

\* gap_days > max_gap_days
ExceedsGap(gap_days, max_gap_days) == gap_days > max_gap_days

Gap(gap_start, gap_end) ==
    [gap_start |-> gap_start, gap_end |-> gap_end,
     gap_days  |-> DaysBetween(gap_end, gap_start)]

\* for session in sorted_sessions: ...  (from index i on), then the gap from
\* the last session to the end date.
RECURSIVE FindGaps(_, _, _, _, _, _)
FindGaps(sorted, i, last_session_end, gaps, end_date, max_gap_days) ==
    IF i > Len(sorted)
      THEN IF ExceedsGap(DaysBetween(end_date, last_session_end), max_gap_days)
             THEN Append(gaps, Gap(last_session_end, end_date))
             ELSE gaps
      ELSE FindGaps(sorted, i + 1, sorted[i].end_time,
                    IF ExceedsGap(DaysBetween(sorted[i].start_time, last_session_end),
                                  max_gap_days)
                      THEN Append(gaps, Gap(last_session_end, sorted[i].start_time))
                      ELSE gaps,
                    end_date, max_gap_days)

\* A verdict that is less confident when it found gaps.
EvaluateExerciseConsistencyResult_Graded(p, gaps) ==
    [fulfilled  |-> Len(gaps) = 0,
     confidence |-> IF Len(gaps) = 0 THEN 100 ELSE 90,
     reasoning  |-> <<"The promise required never going more than ", p.max_gap_days,
                      " days without exercise. ">>
                    \o (IF Len(gaps) = 0 THEN <<"No gaps were found.">>
                        ELSE <<"Found ", Len(gaps), " gaps exceeding ", p.max_gap_days,
                               " days.">>),
     details    |-> [max_gap_days |-> p.max_gap_days,
                     gaps_found   |-> Len(gaps),
                     gaps         |-> gaps]]

EvaluateExerciseConsistencyResult(p, gaps) ==
    [fulfilled  |-> Len(gaps) = 0,
     confidence |-> 100,
     reasoning  |-> <<"The promise required never going more than ", p.max_gap_days,
                      " days without exercise. ">>
                    \o (IF Len(gaps) = 0 THEN <<"No gaps were found.">>
                        ELSE <<"Found ", Len(gaps), " gaps exceeding ", p.max_gap_days,
                               " days.">>),
     details    |-> [max_gap_days |-> p.max_gap_days,
                     gaps_found   |-> Len(gaps),
                     gaps         |-> gaps]]

----------------------------------------------------------------------------
(* Inputs                                                                  *)

\* The instants the inputs are drawn from.
Instants ==
    {Timedelta(FirstDay + d) + tod : d \in 0..MaxDay, tod \in TimesOfDay}

SeqsUpTo(S, n) == UNION {[1..k -> S] : k \in 0..n}

Sessions == [start_time : Instants]

FrequencyPromises ==
    {p \in [type : {"exercise_frequency"}, frequency : Frequencies,
            period : Granularities, start_date : Instants, end_date : Instants] :
        p.start_date <= p.end_date}

NoVerdict == [fulfilled |-> FALSE, confidence |-> 0, reasoning |-> <<>>, details |-> <<>>]

\* No evaluation is running
EvaluationIdle ==
    /\ pc = "ready"
    /\ promise = <<>>
    /\ evidence = <<>>
    /\ grouped = <<>>
    /\ periods = <<>>
    /\ verdict = NoVerdict
    /\ sorted_sessions = <<>>
    /\ args = <<>>
    /\ elevated_periods = <<>>
    /\ raised = "none"
    /\ cursor = None
    /\ iterations = 0

InitFrequency ==
    /\ pc = "ready"
    /\ promise \in FrequencyPromises
    /\ evidence \in [exercise_sessions : SeqsUpTo(Sessions, MaxItems)]
    /\ grouped = <<>>
    /\ periods = <<>>
    /\ verdict = NoVerdict
    /\ sorted_sessions = <<>>
    /\ args = <<>>
    /\ elevated_periods = <<>>
    /\ raised = "none"
    /\ cursor = None
    /\ iterations = 0
    /\ ServicesIdle

EvaluateExerciseFrequency ==
    /\ pc = "ready"
    /\ promise.type = "exercise_frequency"
    /\ LET dict == GroupByPeriod(evidence.exercise_sessions, promise.period,
                                 promise.start_date, promise.end_date)
       IN  /\ periods' = dict
           /\ verdict' = EvaluateExerciseFrequencyResult(promise, evidence, dict)
    /\ grouped' = evidence.exercise_sessions
    /\ pc' = "done"
    /\ UNCHANGED <<promise, evidence, sorted_sessions, args, elevated_periods,
                 raised, cursor, iterations>>
    /\ UNCHANGED service_vars

NextFrequency == EvaluateExerciseFrequency

\* The heart rate series with the given first timestamp, gaps between samples
\* and heart rates, of at most n samples.
RECURSIVE TimestampAt(_, _, _)
TimestampAt(steps, first, i) ==
    IF i = 1 THEN first ELSE TimestampAt(steps, first, i - 1) + steps[i].gap

HrSeries(first, gaps, rates, n) ==
    {[i \in 1..Len(steps) |->
         [timestamp |-> TimestampAt(steps, first, i), heart_rate |-> steps[i].hr]] :
       steps \in SeqsUpTo([gap : gaps, hr : rates], n)}

InitDetector ==
    /\ pc = "ready"
    /\ promise = <<>>
    /\ evidence = <<>>
    /\ grouped = <<>>
    /\ periods = <<>>
    /\ verdict = NoVerdict
    /\ sorted_sessions = <<>>
    /\ args \in [threshold : {120, 130}, min_duration_minutes : {2, 3},
                 hr_data : HrSeries(Timedelta(FirstDay), {1, 2}, {100, 130}, MaxSamples)]
    /\ elevated_periods = <<>>
    /\ raised = "none"
    /\ cursor = None
    /\ iterations = 0
    /\ ServicesIdle

CheckContinuousElevatedHeartRate ==
    /\ pc = "ready"
    /\ elevated_periods' = Detector(args.hr_data, args.threshold, args.min_duration_minutes)
    /\ pc' = "done"
    /\ UNCHANGED <<promise, evidence, grouped, periods, verdict, sorted_sessions, args,
                 raised, cursor, iterations>>
    /\ UNCHANGED service_vars

NextDetector == CheckContinuousElevatedHeartRate

SpecDetector == InitDetector /\ [][NextDetector]_vars

SpecFrequency == InitFrequency /\ [][NextFrequency]_vars

----------------------------------------------------------------------------
(* Duration promises.  The promise dates are dates without a time, as in   *)
(* the example promise of _evaluate_exercise_duration.                     *)

Dates == {Timedelta(FirstDay + d) : d \in 0..MaxDay}

\* The intervals of the evidence: at the thresholds of the promise, below the
\* heart rate threshold, below the minimum duration.
IntervalKinds ==
    {[rate |-> 120, minutes |-> 25], [rate |-> 119, minutes |-> 25],
     [rate |-> 120, minutes |-> 24]}

Intervals ==
    {[start_time |-> t, end_time |-> t + k.minutes, duration_minutes |-> k.minutes,
      average_heart_rate |-> <<k.rate, 1>>] : t \in Instants, k \in IntervalKinds}

DurationPromises ==
    {p \in [type : {"exercise_duration"}, heart_rate_threshold : {120},
            duration_minutes : {25}, frequency : Frequencies,
            period : Granularities, start_date : Dates, end_date : Dates] :
        p.start_date <= p.end_date}

\* The evidence either supplies elevated_hr_periods or has no such entry and
\* holds the heart rate data of the promise window (service.py, evaluate_promise).
DurationEvidence(p) ==
    [elevated_hr_periods : SeqsUpTo(Intervals, MaxItems), heart_rate_data : {<<>>}]
    \cup [heart_rate_data : HrSeries(p.start_date, {25}, {100, 130}, MaxHrSamples)]

InitDuration ==
    /\ pc = "ready"
    /\ promise \in DurationPromises
    /\ evidence \in DurationEvidence(promise)
    /\ grouped = <<>>
    /\ periods = <<>>
    /\ verdict = NoVerdict
    /\ sorted_sessions = <<>>
    /\ args = <<>>
    /\ elevated_periods = <<>>
    /\ raised = "none"
    /\ cursor = None
    /\ iterations = 0
    /\ ServicesIdle

EvaluateExerciseDuration ==
    /\ pc = "ready"
    /\ promise.type = "exercise_duration"
    /\ LET qualifying_periods ==
               QualifyingPeriods(ElevatedHrPeriods(promise, evidence),
                                 promise.heart_rate_threshold, promise.duration_minutes)
           dict == GroupByPeriod(qualifying_periods, promise.period,
                                 promise.start_date, promise.end_date)
       IN  /\ grouped' = qualifying_periods
           /\ periods' = dict
           /\ verdict' = EvaluateExerciseDurationResult(promise, qualifying_periods, dict)
    /\ pc' = "done"
    /\ UNCHANGED <<promise, evidence, sorted_sessions, args, elevated_periods,
                 raised, cursor, iterations>>
    /\ UNCHANGED service_vars

NextDuration == EvaluateExerciseDuration

SpecDuration == InitDuration /\ [][NextDuration]_vars

----------------------------------------------------------------------------
(* Consistency promises                                                    *)

\* Sessions of one hour and of twenty-five hours.
TimedSessions ==
    {[start_time |-> t, end_time |-> t + m] : t \in Instants, m \in {60, 25 * 60}}

ConsistencyPromises ==
    {p \in [type : {"exercise_consistency"}, max_gap_days : {0, 1},
            start_date : Instants, end_date : Instants] :
        p.start_date <= p.end_date}

InitConsistency ==
    /\ pc = "ready"
    /\ promise \in ConsistencyPromises
    /\ evidence \in [exercise_sessions : SeqsUpTo(TimedSessions, MaxItems)]
    /\ grouped = <<>>
    /\ periods = <<>>
    /\ verdict = NoVerdict
    /\ sorted_sessions = <<>>
    /\ args = <<>>
    /\ elevated_periods = <<>>
    /\ raised = "none"
    /\ cursor = None
    /\ iterations = 0
    /\ ServicesIdle

EvaluateExerciseConsistency ==
    /\ pc = "ready"
    /\ promise.type = "exercise_consistency"
    /\ LET sorted == SortByStart(evidence.exercise_sessions,
                                 Len(evidence.exercise_sessions))
           gaps == FindGaps(sorted, 1, promise.start_date, <<>>, promise.end_date,
                            promise.max_gap_days)
       IN  /\ sorted_sessions' = sorted
           /\ verdict' = EvaluateExerciseConsistencyResult(promise, gaps)
    /\ pc' = "done"
    /\ UNCHANGED <<promise, evidence, grouped, periods, args, elevated_periods,
                 raised, cursor, iterations>>
    /\ UNCHANGED service_vars

NextConsistency == EvaluateExerciseConsistency

SpecConsistency == InitConsistency /\ [][NextConsistency]_vars

----------------------------------------------------------------------------
(* RuleBasedEvaluator.evaluate on dicts of any content                     *)
(* A timestamp string is the datetime that fromisoformat reads from it; a  *)
(* string that is not an ISO timestamp is NotIso.  A str where a number is *)
(* expected is AString.  dict.get of an absent key is None.                *)

NotIso == 0 - 2

AString == 0 - 3

\* d.get(k, default)
Get(d, k, default) == IF k \in DOMAIN d THEN d[k] ELSE default

\* datetime.fromisoformat(s): the exception it raises, "none" when it returns
FromIsoformat(s) ==
    IF s = None THEN "TypeError" ELSE IF s = NotIso THEN "ValueError" ELSE "none"

\* Parameter defaults with another default frequency.
Defaults_Twice ==
    [frequency |-> 2, period |-> "week", heart_rate_threshold |-> 120,
     duration_minutes |-> 25, max_gap_days |-> 7]

\* The defaults of promise.get(...) in the three handlers
Defaults ==
    [frequency |-> 1, period |-> "week", heart_rate_threshold |-> 120,
     duration_minutes |-> 25, max_gap_days |-> 7]

\* The ways a call ends: it returns a verdict, it raises, it never leaves a loop.
Returns(v) == [kind |-> "done", raised |-> "none", verdict |-> v]
Raises(x) == [kind |-> "raised", raised |-> x, verdict |-> NoVerdict]
NeverReturns == [kind |-> "loop", raised |-> "none", verdict |-> NoVerdict]

\* for item in items: fromisoformat(item.get(key)): the first exception
RECURSIVE FirstRaise(_, _, _)
FirstRaise(items, i, key) ==
    IF i > Len(items) THEN "none"
    ELSE IF FromIsoformat(Get(items[i], key, None)) # "none"
      THEN FromIsoformat(Get(items[i], key, None))
    ELSE FirstRaise(items, i + 1, key)

\* while current_date <= end_date: ... never ends: an iteration leaves the
\* dict and the cursor as they were.
RECURSIVE LoopsForever(_, _, _, _)
LoopsForever(dict, current_date, end_date, period) ==
    IF current_date > end_date THEN FALSE
    ELSE LET next_dict == DictReset(dict, GetPeriodStart(current_date, period))
             next_date == NextCursor(current_date, period)
         IN  IF next_dict = dict /\ next_date = current_date THEN TRUE
             ELSE LoopsForever(next_dict, next_date, end_date, period)

\* len(sessions) >= frequency, for the first period: the comparison of an int
\* with a str raises
PeriodLoopRaises(dict, frequency) == Len(dict) > 0 /\ frequency = AString

EvaluateExerciseFrequencyOutcome(p, e) ==
    LET frequency == Get(p, "frequency", Defaults.frequency)
        period == Get(p, "period", Defaults.period)
        start_date == Get(p, "start_date", None)
        end_date == Get(p, "end_date", None)
        exercise_sessions == Get(e, "exercise_sessions", <<>>)
    IN  IF FromIsoformat(start_date) # "none" THEN Raises(FromIsoformat(start_date))
        ELSE IF FromIsoformat(end_date) # "none" THEN Raises(FromIsoformat(end_date))
        ELSE IF LoopsForever(<<>>, start_date, end_date, period) THEN NeverReturns
        ELSE IF FirstRaise(exercise_sessions, 1, "start_time") # "none"
          THEN Raises(FirstRaise(exercise_sessions, 1, "start_time"))
        ELSE LET dict == GroupByPeriod(exercise_sessions, period, start_date, end_date)
             IN  IF PeriodLoopRaises(dict, frequency) THEN Raises("TypeError")
                 ELSE Returns(EvaluateExerciseFrequencyResult(
                                  [frequency |-> frequency, period |-> period], e, dict))

\* The filter of the elevated periods raises: average >= threshold with a str
\* threshold, or, for an average that passes, duration >= minimum with a str
\* minimum.
FilterRaises(elevated, heart_rate_threshold, duration_minutes) ==
    /\ Len(elevated) > 0
    /\ \/ heart_rate_threshold = AString
       \/ /\ duration_minutes = AString
          /\ \E i \in 1..Len(elevated) :
                AtLeast(elevated[i].average_heart_rate, heart_rate_threshold)

EvaluateExerciseDurationOutcome(p, e) ==
    LET heart_rate_threshold == Get(p, "heart_rate_threshold", Defaults.heart_rate_threshold)
        duration_minutes == Get(p, "duration_minutes", Defaults.duration_minutes)
        frequency == Get(p, "frequency", Defaults.frequency)
        period == Get(p, "period", Defaults.period)
        start_date == Get(p, "start_date", None)
        end_date == Get(p, "end_date", None)
        elevated_hr_periods == ElevatedHrPeriods(p, e)
    IN  IF FromIsoformat(start_date) # "none" THEN Raises(FromIsoformat(start_date))
        ELSE IF FromIsoformat(end_date) # "none" THEN Raises(FromIsoformat(end_date))
        ELSE IF FilterRaises(elevated_hr_periods, heart_rate_threshold, duration_minutes)
          THEN Raises("TypeError")
        ELSE LET qualifying_periods ==
                     QualifyingPeriods(elevated_hr_periods, heart_rate_threshold,
                                       duration_minutes)
             IN  IF LoopsForever(<<>>, start_date, end_date, period) THEN NeverReturns
                 ELSE IF FirstRaise(qualifying_periods, 1, "start_time") # "none"
                   THEN Raises(FirstRaise(qualifying_periods, 1, "start_time"))
                 ELSE LET dict == GroupByPeriod(qualifying_periods, period,
                                                start_date, end_date)
                      IN  IF PeriodLoopRaises(dict, frequency) THEN Raises("TypeError")
                          ELSE Returns(EvaluateExerciseDurationResult(
                                   [heart_rate_threshold |-> heart_rate_threshold,
                                    duration_minutes |-> duration_minutes,
                                    frequency |-> frequency, period |-> period],
                                   qualifying_periods, dict))

\* for session in sorted_sessions: ...  (from index i on): the first exception,
\* of gap_days > max_gap_days or of fromisoformat(session.get("end_time"))
RECURSIVE GapLoopRaises(_, _, _)
GapLoopRaises(sorted, i, max_gap_days) ==
    IF i > Len(sorted) THEN "none"
    ELSE IF max_gap_days = AString THEN "TypeError"
    ELSE IF FromIsoformat(Get(sorted[i], "end_time", None)) # "none"
      THEN FromIsoformat(Get(sorted[i], "end_time", None))
    ELSE GapLoopRaises(sorted, i + 1, max_gap_days)

EvaluateExerciseConsistencyOutcome(p, e) ==
    LET max_gap_days == Get(p, "max_gap_days", Defaults.max_gap_days)
        start_date == Get(p, "start_date", None)
        end_date == Get(p, "end_date", None)
        exercise_sessions == Get(e, "exercise_sessions", <<>>)
    IN  IF FromIsoformat(start_date) # "none" THEN Raises(FromIsoformat(start_date))
        ELSE IF FromIsoformat(end_date) # "none" THEN Raises(FromIsoformat(end_date))
        ELSE IF FirstRaise(exercise_sessions, 1, "start_time") # "none"
          THEN Raises(FirstRaise(exercise_sessions, 1, "start_time"))
        ELSE LET sorted == SortByStart(exercise_sessions, Len(exercise_sessions))
             IN  IF GapLoopRaises(sorted, 1, max_gap_days) # "none"
                   THEN Raises(GapLoopRaises(sorted, 1, max_gap_days))
                 ELSE IF max_gap_days = AString THEN Raises("TypeError")
                 ELSE Returns(EvaluateExerciseConsistencyResult(
                                  [max_gap_days |-> max_gap_days],
                                  FindGaps(sorted, 1, start_date, <<>>, end_date,
                                           max_gap_days)))

\* self.rule_handlers
RuleHandlers == {"exercise_frequency", "exercise_duration", "exercise_consistency"}

\* promise.get("type"); None is written the way the f-string writes it
PromiseType(p) == Get(p, "type", "None")

\* The dict returned for a type that has no handler.
UnknownPromiseType(promise_type) ==
    [fulfilled  |-> FALSE,
     confidence |-> 0,
     reasoning  |-> <<"Unknown promise type: ", promise_type>>,
     details    |-> <<>>]

\* self.rule_handlers[promise_type](promise, evidence)
Handle(promise_type, p, e) ==
    IF promise_type = "exercise_frequency" THEN EvaluateExerciseFrequencyOutcome(p, e)
    ELSE IF promise_type = "exercise_duration" THEN EvaluateExerciseDurationOutcome(p, e)
    ELSE EvaluateExerciseConsistencyOutcome(p, e)

\* An evaluate that reads the promise's dates before it looks at the type.
EvaluateOutcome_DatesFirst(p, e) ==
    IF FromIsoformat(Get(p, "start_date", None)) # "none"
      THEN Raises(FromIsoformat(Get(p, "start_date", None)))
    ELSE IF PromiseType(p) \notin RuleHandlers
      THEN Returns(UnknownPromiseType(PromiseType(p)))
    ELSE Handle(PromiseType(p), p, e)

\* RuleBasedEvaluator.evaluate
EvaluateOutcome(p, e) ==
    IF PromiseType(p) \notin RuleHandlers
      THEN Returns(UnknownPromiseType(PromiseType(p)))
    ELSE Handle(PromiseType(p), p, e)

----------------------------------------------------------------------------
(* The promises and evidence evaluate is called with: well-formed ones and *)
(* their variants with a key left out, a timestamp that is not ISO, an     *)
(* unknown type, an unknown period, a str for a number.                    *)

Without(d, k) == [x \in DOMAIN d \ {k} |-> d[x]]
With(d, k, v) == [x \in DOMAIN d \cup {k} |-> IF x = k THEN v ELSE d[x]]

WellFormedPromises ==
    {p \in FrequencyPromises : p.start_date \in Dates /\ p.end_date \in Dates}
    \cup DurationPromises
    \cup {p \in ConsistencyPromises : p.start_date \in Dates /\ p.end_date \in Dates}

NumberKeys == {"frequency", "heart_rate_threshold", "duration_minutes", "max_gap_days"}

Variants(p) ==
    {p}
    \cup {Without(p, k) : k \in DOMAIN p}
    \cup {With(p, k, NotIso) : k \in {"start_date", "end_date"}}
    \cup {With(p, "type", "custom"), With(With(p, "type", "custom"), "start_date", NotIso),
          Without(Without(p, "type"), "end_date")}
    \cup {With(p, "period", "fortnight") : k \in DOMAIN p \cap {"period"}}
    \cup {With(p, k, AString) : k \in DOMAIN p \cap NumberKeys}

\* Sessions: well-formed, start_time or end_time not ISO, start_time absent.
RawSessions ==
    LET a == [start_time |-> Timedelta(FirstDay), end_time |-> Timedelta(FirstDay) + 60]
        b == [start_time |-> Timedelta(FirstDay + 1),
              end_time |-> Timedelta(FirstDay + 1) + 60]
    IN  {a, b, With(b, "start_time", NotIso), With(b, "end_time", NotIso),
         Without(b, "start_time")}

\* Elevated intervals: one that meets the thresholds of the promises and one
\* that does not, well-formed or with start_time or end_time not ISO.
RawIntervals ==
    LET q == [start_time |-> Timedelta(FirstDay), end_time |-> Timedelta(FirstDay) + 25,
              duration_minutes |-> 25, average_heart_rate |-> <<120, 1>>]
        low == With(q, "average_heart_rate", <<119, 1>>)
    IN  {q, low, With(q, "start_time", NotIso), With(low, "start_time", NotIso),
         With(q, "end_time", NotIso)}

RawHrData ==
    {<<>>,
     <<[timestamp |-> Timedelta(FirstDay), heart_rate |-> 130]>>,
     <<[timestamp |-> NotIso, heart_rate |-> 130]>>}

EvidenceFor(p) ==
    IF p.type = "exercise_duration"
      THEN [elevated_hr_periods : SeqsUpTo(RawIntervals, MaxItems)]
           \cup [heart_rate_data : RawHrData]
      ELSE [exercise_sessions : SeqsUpTo(RawSessions, MaxItems)] \cup {<<>>}

InitEvaluate ==
    /\ pc = "ready"
    /\ \E p \in WellFormedPromises :
          /\ promise \in Variants(p)
          /\ evidence \in EvidenceFor(p)
    /\ grouped = <<>>
    /\ periods = <<>>
    /\ verdict = NoVerdict
    /\ sorted_sessions = <<>>
    /\ args = <<>>
    /\ elevated_periods = <<>>
    /\ raised = "none"
    /\ cursor = None
    /\ iterations = 0
    /\ ServicesIdle

Evaluate ==
    /\ pc = "ready"
    /\ LET outcome == EvaluateOutcome(promise, evidence)
       IN  /\ pc' = outcome.kind
           /\ raised' = outcome.raised
           /\ verdict' = outcome.verdict
    /\ UNCHANGED <<promise, evidence, grouped, periods, sorted_sessions, args,
                   elevated_periods, cursor, iterations>>
    /\ UNCHANGED service_vars

NextEvaluate == Evaluate

SpecEvaluate == InitEvaluate /\ [][NextEvaluate]_vars

----------------------------------------------------------------------------
(* LLMEvaluator.evaluate (src/evaluator/llm_based.py)                      *)

\* _summarize_evidence: the first exception of its fromisoformat calls, over
\* the sessions and then over the elevated periods
SummarizeEvidenceRaises(e) ==
    IF FirstRaise(Get(e, "exercise_sessions", <<>>), 1, "start_time") # "none"
      THEN FirstRaise(Get(e, "exercise_sessions", <<>>), 1, "start_time")
      ELSE FirstRaise(Get(e, "elevated_hr_periods", <<>>), 1, "start_time")

\* Confidences with a custom promise judged with certainty.
LlmConfidence_Certain ==
    [exercise_frequency |-> 85, exercise_duration |-> 90, custom |-> 100]

\* The "confidence" of the three mock responses, in hundredths
LlmConfidence ==
    [exercise_frequency |-> 85, exercise_duration |-> 90, custom |-> 70]

Meets(fulfilled) ==
    IF fulfilled THEN "This meets the criteria." ELSE "This does not meet the criteria."

MockLlmCall(p, e) ==
    LET promise_type == Get(p, "type", "")
    IN  IF promise_type = "exercise_frequency"
          THEN LET frequency == Get(p, "frequency", 1)
                   period == Get(p, "period", "week")
                   exercise_sessions == Get(e, "exercise_sessions", <<>>)
               IN  IF frequency = AString THEN Raises("TypeError")
                   ELSE Returns(
                     [fulfilled  |-> Len(exercise_sessions) >= frequency,
                      confidence |-> LlmConfidence.exercise_frequency,
                      reasoning  |-> <<"Based on the evidence, the user promised to exercise ",
                                       frequency, " times per ", period,
                                       " and the data shows ", Len(exercise_sessions),
                                       " exercise sessions. ",
                                       Meets(Len(exercise_sessions) >= frequency)>>,
                      details    |-> [sessions_found     |-> Len(exercise_sessions),
                                      required_frequency |-> frequency,
                                      period             |-> period]])
        ELSE IF promise_type = "exercise_duration"
          THEN LET heart_rate_threshold == Get(p, "heart_rate_threshold", 120)
                   duration_minutes == Get(p, "duration_minutes", 25)
                   elevated_hr_periods == Get(e, "elevated_hr_periods", <<>>)
               IN  IF FilterRaises(elevated_hr_periods, heart_rate_threshold,
                                   duration_minutes)
                     THEN Raises("TypeError")
                   ELSE LET qualifying_periods ==
                                QualifyingPeriods(elevated_hr_periods,
                                                  heart_rate_threshold, duration_minutes)
                        IN  Returns(
                     [fulfilled  |-> Len(qualifying_periods) > 0,
                      confidence |-> LlmConfidence.exercise_duration,
                      reasoning  |-> <<"The user promised to maintain a heart rate above ",
                                       heart_rate_threshold, " bpm for at least ",
                                       duration_minutes, " minutes. The data shows ",
                                       Len(qualifying_periods),
                                       " periods meeting these criteria. ",
                                       Meets(Len(qualifying_periods) > 0)>>,
                      details    |-> [qualifying_periods   |-> Len(qualifying_periods),
                                      heart_rate_threshold |-> heart_rate_threshold,
                                      duration_minutes     |-> duration_minutes]])
        ELSE Returns(
                     [fulfilled  |-> TRUE,
                      confidence |-> LlmConfidence.custom,
                      reasoning  |-> <<"Based on the evidence provided, the user appears to have fulfilled their promise. The data shows consistent activity patterns that align with the promise criteria.">>,
                      details    |-> [note |-> "This is a mock LLM evaluation for demonstration purposes."]])

\* LLMEvaluator.evaluate: _format_prompt, then _mock_llm_call
LlmEvaluateOutcome(p, e) ==
    IF SummarizeEvidenceRaises(e) # "none" THEN Raises(SummarizeEvidenceRaises(e))
    ELSE MockLlmCall(p, e)

LlmEvaluate ==
    /\ pc = "ready"
    /\ LET outcome == LlmEvaluateOutcome(promise, evidence)
       IN  /\ pc' = outcome.kind
           /\ raised' = outcome.raised
           /\ verdict' = outcome.verdict
    /\ UNCHANGED <<promise, evidence, grouped, periods, sorted_sessions, args,
                   elevated_periods, cursor, iterations>>
    /\ UNCHANGED service_vars

NextLlm == LlmEvaluate

SpecLlm == InitEvaluate /\ [][NextLlm]_vars

----------------------------------------------------------------------------
(* The generation loop of _group_by_period, one iteration at a time        *)

\* The iterations of the loop the model follows.
MaxIterations == 5

InitGroupByPeriod ==
    /\ pc = "ready"
    /\ promise \in {p \in [period : Granularities \cup {"fortnight"},
                           start_date : Instants, end_date : Instants] :
                       p.start_date <= p.end_date}
    /\ evidence = <<>>
    /\ grouped = <<>>
    /\ periods = <<>>
    /\ verdict = NoVerdict
    /\ sorted_sessions = <<>>
    /\ args = <<>>
    /\ elevated_periods = <<>>
    /\ raised = "none"
    /\ cursor = None
    /\ iterations = 0
    /\ ServicesIdle

\* periods = {}; current_date = start_date
EnterLoop ==
    /\ pc = "ready"
    /\ pc' = "loop"
    /\ periods' = <<>>
    /\ cursor' = promise.start_date
    /\ UNCHANGED <<promise, evidence, grouped, verdict, sorted_sessions, args,
                   elevated_periods, raised, iterations>>
    /\ UNCHANGED service_vars

\* One iteration of while current_date <= end_date
LoopIteration ==
    /\ pc = "loop"
    /\ cursor <= promise.end_date
    /\ iterations < MaxIterations
    /\ periods' = DictReset(periods, GetPeriodStart(cursor, promise.period))
    /\ cursor' = NextCursor(cursor, promise.period)
    /\ iterations' = iterations + 1
    /\ UNCHANGED <<pc, promise, evidence, grouped, verdict, sorted_sessions, args,
                   elevated_periods, raised>>
    /\ UNCHANGED service_vars

\* The loop condition is false
LeaveLoop ==
    /\ pc = "loop"
    /\ cursor > promise.end_date
    /\ pc' = "done"
    /\ UNCHANGED <<promise, evidence, grouped, periods, verdict, sorted_sessions, args,
                   elevated_periods, raised, cursor, iterations>>
    /\ UNCHANGED service_vars

NextGroupByPeriod == EnterLoop \/ LoopIteration \/ LeaveLoop

SpecGroupByPeriod == InitGroupByPeriod /\ [][NextGroupByPeriod]_vars

----------------------------------------------------------------------------
(* A promise of three sessions a week over two calendar weeks              *)

\* Monday 2023-01-02, the first day of the first week.
FirstMonday == FirstDay + 2

\* Sessions on the Monday and on the Sunday of the week that begins on `monday`.
WeekSessions(monday) ==
    [start_time : {Timedelta(monday + d) + tod : d \in {0, 6}, tod \in TimesOfDay}]

InitTwoWeeks ==
    /\ pc = "ready"
    /\ promise \in [type : {"exercise_frequency"}, frequency : {3}, period : {"week"},
                    start_date : {Timedelta(FirstMonday)},
                    end_date : {Timedelta(FirstMonday + 13) + tod : tod \in TimesOfDay}]
    /\ \E week1 \in [1..3 -> WeekSessions(FirstMonday)],
          week2 \in [1..2 -> WeekSessions(FirstMonday + 7)] :
          evidence = [exercise_sessions |-> week1 \o week2]
    /\ grouped = <<>>
    /\ periods = <<>>
    /\ verdict = NoVerdict
    /\ sorted_sessions = <<>>
    /\ args = <<>>
    /\ elevated_periods = <<>>
    /\ raised = "none"
    /\ cursor = None
    /\ iterations = 0
    /\ ServicesIdle

SpecTwoWeeks == InitTwoWeeks /\ [][NextFrequency]_vars

----------------------------------------------------------------------------
(* Promises whose window is a single instant or ends before it starts      *)

WindowPromises ==
    {p \in [type : {"exercise_frequency"}, frequency : Frequencies,
            period : Granularities, start_date : Instants, end_date : Instants] :
        p.end_date <= p.start_date}
    \cup {p \in [type : {"exercise_duration"}, heart_rate_threshold : {120},
                 duration_minutes : {25}, frequency : Frequencies,
                 period : Granularities, start_date : Dates, end_date : Dates] :
             p.end_date <= p.start_date}

WindowEvidence(p) ==
    IF p.type = "exercise_frequency"
      THEN [exercise_sessions : SeqsUpTo(Sessions, MaxItems)]
      ELSE [elevated_hr_periods :
                SeqsUpTo({x \in Intervals : /\ x.average_heart_rate = <<120, 1>>
                                            /\ x.duration_minutes = 25}, MaxItems)]

InitWindow ==
    /\ pc = "ready"
    /\ promise \in WindowPromises
    /\ evidence \in WindowEvidence(promise)
    /\ grouped = <<>>
    /\ periods = <<>>
    /\ verdict = NoVerdict
    /\ sorted_sessions = <<>>
    /\ args = <<>>
    /\ elevated_periods = <<>>
    /\ raised = "none"
    /\ cursor = None
    /\ iterations = 0
    /\ ServicesIdle

NextWindow == EvaluateExerciseFrequency \/ EvaluateExerciseDuration

SpecWindow == InitWindow /\ [][NextWindow]_vars

----------------------------------------------------------------------------
(* EvaluatorRegistry (interface.py), SelfPromiseService.__init__           *)

\* Most calls of register besides those the imports make.
MaxCalls == 1

\* The modules that register an evaluator at their last line.
Modules == {"rule_based", "llm_based"}

\* The names handed to get_evaluator and SelfPromiseService.
EvaluatorNames == {"rule_based", "llm", "custom"}

\* The register statement a module runs when it is imported
RegisteredOnImport(module) ==
    IF module = "rule_based"
      THEN [name |-> "rule_based", evaluator_class |-> "RuleBasedEvaluator"]
      ELSE [name |-> "llm", evaluator_class |-> "LLMEvaluator"]

\* cls._evaluators[name] = evaluator_class
Register(table, name, evaluator_class) ==
    [n \in DOMAIN table \cup {name} |-> IF n = name THEN evaluator_class ELSE table[n]]

\* An object of the class; None is the object of NoneType
Instance(class) == [class |-> class]
NoneObject == Instance("NoneType")

\* evaluator_class(**kwargs): RuleBasedEvaluator.__init__ takes no keyword,
\* LLMEvaluator.__init__ takes model_name
ConstructorRaises(class, kwargs) ==
    IF class = "RuleBasedEvaluator" /\ kwargs # {} THEN "TypeError" ELSE "none"

GetEvaluator_Fallback(table, name, kwargs) ==
    LET evaluator_class == Get(table, name, "RuleBasedEvaluator")
    IN  IF evaluator_class # "None"
          THEN IF ConstructorRaises(evaluator_class, kwargs) # "none"
                 THEN [raised |-> ConstructorRaises(evaluator_class, kwargs),
                       returned |-> NoneObject]
                 ELSE [raised |-> "none", returned |-> Instance(evaluator_class)]
          ELSE [raised |-> "none", returned |-> NoneObject]

\* get_evaluator: cls._evaluators.get(name), the instance if the class is
\* there, None if it is not
GetEvaluator(table, name, kwargs) ==
    LET evaluator_class == Get(table, name, "None")
    IN  IF evaluator_class # "None"
          THEN IF ConstructorRaises(evaluator_class, kwargs) # "none"
                 THEN [raised |-> ConstructorRaises(evaluator_class, kwargs),
                       returned |-> NoneObject]
                 ELSE [raised |-> "none", returned |-> Instance(evaluator_class)]
          ELSE [raised |-> "none", returned |-> NoneObject]

\* SapphireClient.__init__ for a network and whether the parameter or
\* OASIS_PRIVATE_KEY holds a key: the exception it raises, "none" when it returns
SapphireClientRaises(credentials) ==
    IF ~credentials.has_private_key THEN "ValueError"
    ELSE IF credentials.network \notin {"sapphire-localnet"} THEN "KeyError"
    ELSE "none"

\* SelfPromiseService.__init__: the TEE clients, then
\* self.evaluator = get_evaluator(evaluator_type);
\* if not self.evaluator: raise ValueError
ServiceInit(table, credentials, evaluator_type) ==
    LET evaluator == GetEvaluator(table, evaluator_type, {}).returned
    IN  IF SapphireClientRaises(credentials) # "none"
          THEN [stage |-> "clients", evaluator |-> NoneObject,
                raised |-> SapphireClientRaises(credentials)]
          ELSE [stage |-> "evaluator", evaluator |-> evaluator,
                raised |-> IF evaluator = NoneObject THEN "ValueError" ELSE "none"]

InitRegistry ==
    /\ EvaluationIdle
    /\ RegistryIdle
    /\ CliIdle
    /\ ChainIdle

\* import src.evaluator.rule_based / llm_based, for the first time
Import ==
    \E module \in Modules \ imported :
        /\ imported' = imported \cup {module}
        /\ evaluators' = Register(evaluators, RegisteredOnImport(module).name,
                                  RegisteredOnImport(module).evaluator_class)
        /\ calls' = Append(calls, RegisteredOnImport(module))
        /\ UNCHANGED <<lookup, service>>
        /\ UNCHANGED <<pc, evaluation_data, cli_vars, chain_vars>>

\* EvaluatorRegistry.register(name, evaluator_class)
RegisterCall ==
    \E name \in {"rule_based", "custom"}, evaluator_class \in {"RuleBasedEvaluator", "LLMEvaluator"} :
        /\ Len(calls) < MaxCalls + Cardinality(imported)
        /\ evaluators' = Register(evaluators, name, evaluator_class)
        /\ calls' = Append(calls, [name |-> name, evaluator_class |-> evaluator_class])
        /\ UNCHANGED <<imported, lookup, service>>
        /\ UNCHANGED <<pc, evaluation_data, cli_vars, chain_vars>>

\* EvaluatorRegistry.get_evaluator(name, **kwargs)
GetEvaluatorCall ==
    \E name \in EvaluatorNames, kwargs \in {{}, {"model_name"}} :
        /\ lookup' = [name |-> name, kwargs |-> kwargs, at |-> Len(calls),
                      raised |-> GetEvaluator(evaluators, name, kwargs).raised,
                      returned |-> GetEvaluator(evaluators, name, kwargs).returned]
        /\ UNCHANGED <<evaluators, imported, calls, service>>
        /\ UNCHANGED <<pc, evaluation_data, cli_vars, chain_vars>>

\* SelfPromiseService(network, private_key, evaluator_type)
ServiceInitCall ==
    \E evaluator_type \in EvaluatorNames,
       credentials \in {[network |-> "sapphire-localnet", has_private_key |-> TRUE],
                        [network |-> "sapphire-localnet", has_private_key |-> FALSE],
                        [network |-> "nonet", has_private_key |-> TRUE]} :
        /\ service' = [evaluator_type |-> evaluator_type, at |-> Len(calls),
                       stage |-> ServiceInit(evaluators, credentials, evaluator_type).stage,
                       raised |-> ServiceInit(evaluators, credentials, evaluator_type).raised,
                       evaluator |->
                           ServiceInit(evaluators, credentials, evaluator_type).evaluator]
        /\ UNCHANGED <<evaluators, imported, calls, lookup>>
        /\ UNCHANGED <<pc, evaluation_data, cli_vars, chain_vars>>

NextRegistry == Import \/ RegisterCall \/ GetEvaluatorCall \/ ServiceInitCall

SpecRegistry == InitRegistry /\ [][NextRegistry]_vars

----------------------------------------------------------------------------
(* The command line: connect-tracker and create-promise                    *)
(* (self_promise/self_promise_cli.py)                                      *)

\* bool(x) for a dict or None
Truthy(x) == IF x = NoneObject THEN FALSE ELSE DOMAIN x # {}

\* load_tracker_config for what trackers.json holds (no file: "absent", text
\* that is not JSON: "corrupt", the JSON object {}: "empty", the token data of
\* a provider): the parsed file, None when there is no file or it does not parse
LoadTrackerConfig(file) ==
    IF file \in {"absent", "corrupt"} THEN NoneObject
    ELSE IF file = "empty" THEN <<>>
    ELSE [provider |-> file]

\* save_tracker_config: open(config_file, "w") raises when the directory
\* cannot be written, and the file is then as before
SaveTrackerConfig(file, data, disk) ==
    IF disk = "read_only"
      THEN [raised |-> "OSError", file |-> file, writes |-> 0]
      ELSE [raised |-> "none", file |-> data.provider, writes |-> 1]

\* connect_tracker(provider): the token data of the provider is saved
ConnectTracker(file, provider, disk) ==
    SaveTrackerConfig(file, [provider |-> provider], disk)

CliCreatePromise_KeepSetting(a, file) ==
    LET tracker_config == LoadTrackerConfig(file)
    IN  [service_called |-> a.parameters_valid,
         auto_evidence |-> a.parameters_valid /\ a.auto_evidence_flag,
         file |-> file, reads |-> 0, writes |-> 0, prompted |-> ~Truthy(tracker_config)]

\* create_promise of the command line, for the options and the answer a and
\* the file trackers.json: whether service.create_promise was called, the
\* auto_evidence it was given, the file afterwards, the calls of
\* load_tracker_config, the writes of trackers.json, whether the user was asked
CliCreatePromise(a, file) ==
    LET tracker_config == LoadTrackerConfig(file)
        connected == ConnectTracker(file, "mockfit", a.disk)
        reloaded == LoadTrackerConfig(connected.file)
    IN  IF ~a.parameters_valid
          THEN [service_called |-> FALSE, auto_evidence |-> FALSE, file |-> file,
                reads |-> 0, writes |-> 0, prompted |-> FALSE]
        ELSE IF ~a.auto_evidence_flag
          THEN [service_called |-> TRUE, auto_evidence |-> FALSE, file |-> file,
                reads |-> 0, writes |-> 0, prompted |-> FALSE]
        ELSE IF Truthy(tracker_config)
          THEN [service_called |-> TRUE, auto_evidence |-> TRUE, file |-> file,
                reads |-> 1, writes |-> 0, prompted |-> FALSE]
        ELSE IF a.answer = "n"
          THEN [service_called |-> TRUE, auto_evidence |-> FALSE, file |-> file,
                reads |-> 1, writes |-> 0, prompted |-> TRUE]
        ELSE IF connected.raised # "none"
          THEN [service_called |-> TRUE, auto_evidence |-> FALSE,
                file |-> connected.file, reads |-> 1, writes |-> connected.writes,
                prompted |-> TRUE]
        ELSE [service_called |-> TRUE, auto_evidence |-> Truthy(reloaded),
              file |-> connected.file, reads |-> 2, writes |-> connected.writes,
              prompted |-> TRUE]

\* The file trackers.json, the options of create-promise, the answer to the
\* prompt if it is asked, whether the configuration directory can be written
InitCli ==
    /\ EvaluationIdle
    /\ RegistryIdle
    /\ ChainIdle
    /\ trackers_json \in {"absent", "corrupt", "empty", "mockfit", "fitbit"}
    /\ cli_args \in [auto_evidence_flag : BOOLEAN, parameters_valid : BOOLEAN,
                     answer : {"y", "n"}, disk : {"ok", "read_only"}]
    /\ cli_run = <<>>

\* self-promise connect-tracker --provider ...
ConnectTrackerCommand ==
    \E provider \in {"mockfit", "fitbit"} :
        /\ pc = "ready"
        /\ trackers_json' = ConnectTracker(trackers_json, provider, cli_args.disk).file
        /\ UNCHANGED <<cli_args, cli_run>>
        /\ UNCHANGED <<pc, evaluation_data, registry_vars, chain_vars>>

\* self-promise create-promise ...
CreatePromiseCommand ==
    /\ pc = "ready"
    /\ pc' = "done"
    /\ cli_run' = [before |-> trackers_json,
                   service_called |-> CliCreatePromise(cli_args, trackers_json).service_called,
                   auto_evidence |-> CliCreatePromise(cli_args, trackers_json).auto_evidence,
                   reads |-> CliCreatePromise(cli_args, trackers_json).reads,
                   writes |-> CliCreatePromise(cli_args, trackers_json).writes,
                   prompted |-> CliCreatePromise(cli_args, trackers_json).prompted]
    /\ trackers_json' = CliCreatePromise(cli_args, trackers_json).file
    /\ UNCHANGED cli_args
    /\ UNCHANGED <<evaluation_data, registry_vars, chain_vars>>

NextCli == ConnectTrackerCommand \/ CreatePromiseCommand

SpecCli == InitCli /\ [][NextCli]_vars

----------------------------------------------------------------------------
(* SapphireClient.is_network_ready and get_event_from_receipt (sapphire.py) *)

\* Most attempts a call is given.
MaxAttempts == 3

\* is_network_ready for what the node answers to its checks ("ok", "syncing",
\* "syncing_error", "stale_block", "block_error", "busy", "pending_error"):
\* every exception is caught; not ready when the node is syncing, the latest
\* block is old, too many transactions are pending or the first check raised
IsNetworkReady(state) ==
    [raised |-> "none",
     returned |-> state \notin {"syncing", "syncing_error", "stale_block", "busy"}]

\* What the node does in one attempt: get_transaction finds the transaction,
\* returns None or raises; wait_for_transaction_receipt times out
\* (asyncio.TimeoutError), raises something else, or gives a receipt: of a
\* failed transaction, without the event, with an event that cannot be
\* decoded, with the event.
Receipts == {"timeout", "error", "status0", "event_absent", "process_error", "event"}

NodeBehaviours ==
    {[tx |-> "none", receipt |-> "unused"]}
    \cup [tx : {"found"}, receipt : Receipts]
    \cup [tx : {"error"}, receipt : {"timeout", "event"}]

\* processed_events[0]['args'] of the PromiseCreated event of a transaction:
\* the contract gives every created promise its own id
PromiseIdOf(tx_hash) == 100 + tx_hash
EventArgs(tx_hash) == [promiseId |-> PromiseIdOf(tx_hash)]

\* timeout = initial_timeout * (2 ** (attempt - 1))
Timeout_Linear(initial_timeout, attempt) == initial_timeout * attempt

Timeout(initial_timeout, attempt) == initial_timeout * (2 ^ (attempt - 1))

\* The call returns v after the receipt waits w
Returned(v, w) == [raised |-> "none", returned |-> v, waits |-> w]

\* The attempts attempt .. max_attempts of the loop of get_event_from_receipt,
\* after the receipt waits `waits`
RECURSIVE Attempts(_, _, _, _)
Attempts(a, script, attempt, waits) ==
    LET timeout == Timeout(a.initial_timeout, attempt)
        waited == Append(waits, [attempt |-> attempt, timeout |-> timeout])
    IN  IF attempt > a.max_attempts THEN Returned(NoneObject, waits)
        ELSE IF script[attempt].tx = "none"
          THEN IF attempt = a.max_attempts
                 THEN Returned(NoneObject, waits)
                 ELSE Attempts(a, script, attempt + 1, waits)
        ELSE IF script[attempt].receipt \in {"timeout", "error"}
          THEN IF attempt = a.max_attempts
                 THEN Returned(NoneObject, waited)
                 ELSE Attempts(a, script, attempt + 1, waited)
        ELSE IF script[attempt].receipt = "status0" THEN Returned(NoneObject, waited)
        ELSE IF ~a.abi_cached THEN Returned(NoneObject, waited)
        ELSE IF script[attempt].receipt = "event" THEN Returned(EventArgs(a.tx_hash), waited)
        ELSE Returned(NoneObject, waited)

\* get_event_from_receipt(tx_hash, contract_name_for_abi, event_name,
\* max_attempts, initial_timeout) against a node that behaves as script[k] in
\* attempt k
GetEventFromReceipt(a, state, script) ==
    IF IsNetworkReady(state).raised # "none"
      THEN [raised |-> IsNetworkReady(state).raised, returned |-> NoneObject, waits |-> <<>>]
      ELSE Attempts(a, script, 1, <<>>)

InitReceipt ==
    /\ EvaluationIdle
    /\ RegistryIdle
    /\ CliIdle
    /\ receipt_args \in [tx_hash : {1}, abi_cached : BOOLEAN,
                         max_attempts : 0..MaxAttempts, initial_timeout : {30}]
    /\ network \in {"ok", "syncing_error"}
    /\ node \in [1..MaxAttempts -> NodeBehaviours]
    /\ receipt_run = <<>>
    /\ create_args = <<>>
    /\ create_run = <<>>

GetEventFromReceiptCall ==
    /\ pc = "ready"
    /\ pc' = "done"
    /\ receipt_run' = GetEventFromReceipt(receipt_args, network, node)
    /\ UNCHANGED <<receipt_args, network, node, create_args, create_run>>
    /\ UNCHANGED <<evaluation_data, registry_vars, cli_vars>>

SpecReceipt == InitReceipt /\ [][GetEventFromReceiptCall]_vars

----------------------------------------------------------------------------
(* SelfPromiseService.create_promise (service.py)                          *)

\* get_event_from_receipt(..., max_attempts=3, initial_timeout=30)
ReceiptAttempts == 3
ReceiptTimeout == 30

\* A transaction handed to the chain, with the promiseId a deposit carries
SendEntry(method, tx_hash, promise_id) ==
    [kind |-> "send", method |-> method, tx_hash |-> tx_hash, promiseId |-> promise_id]

\* A PromiseCreated event retrieved from the receipt of a transaction
EventEntry(tx_hash, promise_id) ==
    [kind |-> "event", method |-> "createPromise", tx_hash |-> tx_hash,
     promiseId |-> promise_id]

\* The hash of the next transaction: every transaction sent has its own
NextTxHash(log) == Cardinality({i \in 1..Len(log) : log[i].kind = "send"}) + 1

\* The first loop of create_promise, attempts attempt .. max_attempts; st holds
\* the transactions and events so far, create_promise_tx_hash,
\* actual_promise_id and the exception that left the loop
RECURSIVE CreateAttempts(_, _, _, _)
CreateAttempts(a, env, attempt, st) ==
    IF attempt > a.max_attempts THEN st
    ELSE
      LET b == env[attempt]
          tx_hash == NextTxHash(st.log)
          sent == Append(st.log, SendEntry("createPromise", tx_hash, None))
          event_args ==
              GetEventFromReceipt([tx_hash |-> tx_hash, abi_cached |-> a.abi_cached,
                                   max_attempts |-> ReceiptAttempts,
                                   initial_timeout |-> ReceiptTimeout],
                                  b.network, b.node).returned
      IN  IF ~IsNetworkReady(b.network).returned /\ attempt < a.max_attempts
            THEN CreateAttempts(a, env, attempt + 1, st)
          ELSE IF b.send = "raises"
            THEN IF attempt = a.max_attempts
                   THEN [st EXCEPT !.raised = "SendError"]
                   ELSE CreateAttempts(a, env, attempt + 1, st)
          ELSE IF Truthy(event_args) /\ "promiseId" \in DOMAIN event_args
            THEN [log |-> Append(sent, EventEntry(tx_hash, event_args.promiseId)),
                  create_promise_tx_hash |-> tx_hash,
                  actual_promise_id |-> event_args.promiseId,
                  raised |-> "none"]
          ELSE CreateAttempts(a, env, attempt + 1,
                              [st EXCEPT !.log = sent, !.create_promise_tx_hash = tx_hash])

\* args=[actual_promise_id] of the deposit transaction
DepositPromiseId_FirstSent(log, actual_promise_id) == PromiseIdOf(1)

DepositPromiseId(log, actual_promise_id) == actual_promise_id

\* What create_promise returns or raises, with the transactions and events
Outcome(log, exception, returned) ==
    [log |-> log, raised |-> exception, returned |-> returned]

\* The second loop of create_promise, attempts attempt .. max_attempts
RECURSIVE DepositAttempts(_, _, _, _)
DepositAttempts(a, deposits, attempt, st) ==
    LET tx_hash == NextTxHash(st.log)
        sent == Append(st.log, SendEntry("deposit", tx_hash,
                                         DepositPromiseId(st.log, st.actual_promise_id)))
    IN  IF attempt > a.max_attempts THEN Outcome(st.log, "none", NoneObject)
        ELSE IF deposits[attempt] = "raises"
          THEN IF attempt = a.max_attempts
                 THEN Outcome(st.log, "SendError", NoneObject)
                 ELSE DepositAttempts(a, deposits, attempt + 1, st)
        ELSE Outcome(sent, "none",
                     [promise_id |-> st.actual_promise_id, tx_hash |-> tx_hash,
                      create_tx_hash |-> st.create_promise_tx_hash])

\* create_promise(..., max_attempts) against a network and a node that behave
\* as env[k] in attempt k of the first loop and deposits[k] in attempt k of
\* the second
CreatePromise(a, env, deposits) ==
    LET created == CreateAttempts(a, env, 1,
                                  [log |-> <<>>, create_promise_tx_hash |-> None,
                                   actual_promise_id |-> None, raised |-> "none"])
    IN  IF created.raised # "none" THEN Outcome(created.log, created.raised, NoneObject)
        ELSE IF created.actual_promise_id = None
          THEN Outcome(created.log, "Exception", NoneObject)
        ELSE DepositAttempts(a, deposits, 1, created)

\* The node behaves in the same way in every attempt of get_event_from_receipt
AllOf(b) == [k \in 1..ReceiptAttempts |-> b]

\* One attempt of the first loop: the network is not ready; send_transaction
\* raises; the transaction is sent and its event is retrieved, or its receipt
\* does not come in time, or it failed
CreateBehaviours ==
    {[network |-> "syncing", send |-> "sent",
      node |-> AllOf([tx |-> "found", receipt |-> "event"])],
     [network |-> "ok", send |-> "raises",
      node |-> AllOf([tx |-> "found", receipt |-> "event"])],
     [network |-> "ok", send |-> "sent",
      node |-> AllOf([tx |-> "found", receipt |-> "event"])],
     [network |-> "ok", send |-> "sent",
      node |-> AllOf([tx |-> "found", receipt |-> "timeout"])],
     [network |-> "ok", send |-> "sent",
      node |-> AllOf([tx |-> "found", receipt |-> "status0"])]}

InitCreate ==
    /\ EvaluationIdle
    /\ RegistryIdle
    /\ CliIdle
    /\ network = "ok"
    /\ node = <<>>
    /\ receipt_args = <<>>
    /\ receipt_run = <<>>
    /\ create_args \in [max_attempts : 0..MaxAttempts, abi_cached : BOOLEAN,
                        env : [1..MaxAttempts -> CreateBehaviours],
                        deposits : [1..MaxAttempts -> {"sent", "raises"}]]
    /\ create_run = <<>>

CreatePromiseCall ==
    /\ pc = "ready"
    /\ pc' = "done"
    /\ create_run' = CreatePromise(create_args, create_args.env, create_args.deposits)
    /\ UNCHANGED <<network, node, receipt_args, receipt_run, create_args>>
    /\ UNCHANGED <<evaluation_data, registry_vars, cli_vars>>

SpecCreate == InitCreate /\ [][CreatePromiseCall]_vars

----------------------------------------------------------------------------
(* Helpers of the properties                                               *)

Range(f) == {f[i] : i \in DOMAIN f}

\* Midnight of the day of t.
Midnight(t) == (t \div MinutesPerDay) * MinutesPerDay

\* The calendar unit boundary at or before t: midnight of its day, midnight of
\* the Monday of its week, midnight of the 1st of its month.
CanonicalUnitStart(t, period) ==
    IF period = "day" THEN Midnight(t)
    ELSE IF period = "week" THEN Midnight(t) - Weekday(t) * MinutesPerDay
    ELSE Datetime(DateOf(t).year, DateOf(t).month, 1)

\* The items that were handed to _group_by_period.
Items == grouped

\* The buckets (positions in `periods`) that hold item j, with multiplicity.
Holders(j) ==
    {<<i, k>> \in (1..Len(periods)) \X (1..MaxItems + 1) :
        k <= Len(periods[i].items) /\ periods[i].items[k] = j}

\* Item j starts inside the span of the i-th generated period.
InSpan(j, i) ==
    /\ periods[i].start <= Items[j].start_time
    /\ Items[j].start_time <= GetPeriodEnd(periods[i].start, promise.period)

----------------------------------------------------------------------------
(* C1 .. C5: frequency evaluator and period segmenter                      *)

\* C1: a generated period is reported fulfilled iff the number of sessions
\* bucketed into it is >= frequency; the verdict is fulfilled iff
\* details.fulfilled_periods = details.total_periods; both counts are reported
\* whatever the verdict.
C1_FrequencyVerdict ==
    pc = "done" =>
        /\ Len(verdict.details.periods) = Len(periods)
        /\ \A i \in 1..Len(periods) :
              /\ verdict.details.periods[i].sessions_count =
                     Cardinality({j \in 1..Len(Items) : j \in Range(periods[i].items)})
              /\ verdict.details.periods[i].fulfilled <=>
                     (Cardinality({j \in 1..Len(Items) : j \in Range(periods[i].items)})
                          >= promise.frequency)
        /\ verdict.details.total_periods = Len(periods)
        /\ verdict.details.fulfilled_periods =
               Cardinality({i \in 1..Len(periods) : verdict.details.periods[i].fulfilled})
        /\ verdict.fulfilled <=>
               (verdict.details.fulfilled_periods = verdict.details.total_periods)

\* A false verdict that still reports one fulfilled period out of several.
C1_Witness ==
    /\ pc = "done"
    /\ ~verdict.fulfilled
    /\ verdict.details.fulfilled_periods >= 1
    /\ verdict.details.total_periods > verdict.details.fulfilled_periods

\* C2: an item whose start timestamp lies inside a generated period's span is
\* in that period's bucket, for every granularity and every time of day.
C2_BucketingComplete ==
    pc = "done" =>
        \A i \in 1..Len(periods) : \A j \in 1..Len(Items) :
            InSpan(j, i) => j \in Range(periods[i].items)

\* C3: the generated periods are contiguous and non-overlapping and cover
\* [unit_start(start), end], the unit that contains end included.
C3_PeriodsCover ==
    pc = "done" =>
        /\ Len(periods) >= 1
        /\ periods[1].start <= CanonicalUnitStart(promise.start_date, promise.period)
        /\ \A i \in 1..(Len(periods) - 1) :
              periods[i + 1].start =
                  GetPeriodEnd(periods[i].start, promise.period) + Microsecond
        /\ promise.end_date <=
               GetPeriodEnd(periods[Len(periods)].start, promise.period)

\* C4: group_by_period is a partial partition: no item is in two buckets or
\* twice in one, an item in a bucket starts inside that bucket's period, and an
\* item that starts outside every generated period is in no bucket.
C4_PartialPartition ==
    pc = "done" =>
        /\ \A i1, i2 \in 1..Len(periods) :
              periods[i1].start = periods[i2].start => i1 = i2
        /\ \A j \in 1..Len(Items) :
              /\ Cardinality(Holders(j)) <= 1
              /\ \A h \in Holders(j) : InSpan(j, h[1])
              /\ (\A i \in 1..Len(periods) : ~InSpan(j, i)) => Holders(j) = {}
        /\ \A i \in 1..Len(periods) : Range(periods[i].items) \subseteq 1..Len(Items)

\* One item kept in a bucket and one dropped, with several periods generated.
C4_Witness ==
    /\ pc = "done"
    /\ Len(periods) >= 2
    /\ \E j1, j2 \in 1..Len(Items) :
          /\ Holders(j1) # {}
          /\ Holders(j2) = {}
          /\ \A i \in 1..Len(periods) : ~InSpan(j2, i)

\* C5: the first generated period starts at the calendar unit boundary that
\* contains start (midnight, Monday, the 1st), whatever start's time of day.
C5_FirstPeriodCanonical ==
    pc = "done" =>
        /\ Len(periods) >= 1
        /\ periods[1].start = CanonicalUnitStart(promise.start_date, promise.period)

----------------------------------------------------------------------------
(* C6, C7: duration evaluator                                              *)

\* The indices of the supplied elevated intervals that meet both thresholds.
Counted ==
    {j \in 1..Len(ElevatedHrPeriods(promise, evidence)) :
        LET x == ElevatedHrPeriods(promise, evidence)[j]
        IN  /\ AtLeast(x.average_heart_rate, promise.heart_rate_threshold)
            /\ x.duration_minutes >= promise.duration_minutes}

\* The counted intervals that start inside the i-th generated period.
StartingIn(i) == {j \in 1..Len(grouped) : InSpan(j, i)}

\* C6: only intervals with average_heart_rate >= heart_rate_threshold and
\* duration_minutes >= the promise's duration_minutes are counted; each counted
\* interval is attributed to exactly the period that contains its start_time,
\* never to the period of its end_time; the verdict is fulfilled iff every
\* generated period holds at least `frequency` counted intervals.
C6_DurationRule ==
    pc = "done" =>
        /\ Len(grouped) = Cardinality(Counted)
        /\ verdict.details.qualifying_sessions = Cardinality(Counted)
        /\ \A j \in 1..Len(grouped) :
              /\ AtLeast(grouped[j].average_heart_rate, promise.heart_rate_threshold)
              /\ grouped[j].duration_minutes >= promise.duration_minutes
              /\ \A h \in Holders(j) : InSpan(j, h[1])
              /\ \A i \in 1..Len(periods) :
                    InSpan(j, i) => Holders(j) = {h \in Holders(j) : h[1] = i}
                                    /\ Cardinality(Holders(j)) = 1
        /\ verdict.fulfilled <=>
               \A i \in 1..Len(periods) : Cardinality(StartingIn(i)) >= promise.frequency

\* C6 for the granularities whose unit start does not keep the time of day.
C6_DurationRuleDayMonth ==
    promise.period # "week" => C6_DurationRule

----------------------------------------------------------------------------
(* C8: consistency evaluator                                               *)

\* The instant the k-th gap (k = 1 .. number of sessions + 1) starts and ends
\* at, along the sorted sessions.
GapStart(k) == IF k = 1 THEN promise.start_date ELSE sorted_sessions[k - 1].end_time
GapEnd(k) ==
    IF k = Len(sorted_sessions) + 1 THEN promise.end_date
    ELSE sorted_sessions[k].start_time

\* Whole days from a to b, rounded down.
WholeDays(a, b) ==
    CHOOSE n \in -(MaxDay + 4)..(MaxDay + 4) :
        n * MinutesPerDay <= b - a /\ b - a < (n + 1) * MinutesPerDay

\* The gaps that are longer than max_gap_days, in order.
LongGaps ==
    SelectSeq([k \in 1..(Len(sorted_sessions) + 1) |-> k],
              LAMBDA k : WholeDays(GapStart(k), GapEnd(k)) > promise.max_gap_days)

\* The number of times x occurs in the sequence xs.
Occurrences(xs, x) == Cardinality({i \in 1..Len(xs) : xs[i] = x})

\* C8: the sessions are walked in ascending order of start time; the gaps
\* promise.start -> first start, each end -> next start, last end ->
\* promise.end are taken in whole days; exactly the gaps > max_gap_days are
\* recorded (a gap of exactly max_gap_days is not), and fulfilled is true iff
\* no gap is recorded.
C8_ConsistencyRule ==
    pc = "done" =>
        /\ Len(sorted_sessions) = Len(evidence.exercise_sessions)
        /\ \A x \in Range(evidence.exercise_sessions) :
              Occurrences(sorted_sessions, x) = Occurrences(evidence.exercise_sessions, x)
        /\ \A i \in 1..(Len(sorted_sessions) - 1) :
              sorted_sessions[i].start_time <= sorted_sessions[i + 1].start_time
        /\ verdict.details.gaps_found = Len(LongGaps)
        /\ Len(verdict.details.gaps) = Len(LongGaps)
        /\ \A n \in 1..Len(LongGaps) :
              /\ verdict.details.gaps[n].gap_start = GapStart(LongGaps[n])
              /\ verdict.details.gaps[n].gap_end = GapEnd(LongGaps[n])
              /\ verdict.details.gaps[n].gap_days =
                     WholeDays(GapStart(LongGaps[n]), GapEnd(LongGaps[n]))
        /\ verdict.fulfilled <=> (Len(LongGaps) = 0)

\* Two sessions given out of order, one gap of exactly max_gap_days that is
\* not recorded and one longer gap that is.
C8_Witness ==
    /\ pc = "done"
    /\ Len(sorted_sessions) = 2
    /\ sorted_sessions # evidence.exercise_sessions
    /\ \E k \in 1..3 : WholeDays(GapStart(k), GapEnd(k)) = promise.max_gap_days
    /\ Len(verdict.details.gaps) = 1
    /\ ~verdict.fulfilled

----------------------------------------------------------------------------
(* C9, C10: detector                                                       *)

Hr == args.hr_data

\* Sample k is >= threshold and no interval is open when it is seen.
Opens(k) ==
    /\ Hr[k].heart_rate >= args.threshold
    /\ k = 1 \/ Hr[k - 1].heart_rate < args.threshold

\* Sample m is the next sample < threshold after sample k.
ClosedBy(k, m) ==
    /\ m > k
    /\ Hr[m].heart_rate < args.threshold
    /\ \A n \in (k + 1)..(m - 1) : Hr[n].heart_rate >= args.threshold

\* The interval opened at sample k and closed at sample m is in the output.
Emitted(k, m) ==
    \E e \in Range(elevated_periods) :
        /\ e.start_time = Hr[k].timestamp
        /\ e.end_time = Hr[m].timestamp
        /\ e.duration_minutes = Hr[m].timestamp - Hr[k].timestamp

\* C9: an interval is opened at the first sample >= threshold seen while none
\* is open; at the next sample < threshold it is emitted iff its duration
\* (that sample's timestamp - the interval's start) is >= min_duration_minutes,
\* and it is closed either way, so a later run opens an interval of its own.
C9_DetectorSweep ==
    pc = "done" =>
        /\ \A k, m \in 1..Len(Hr) :
              (Opens(k) /\ ClosedBy(k, m)) =>
                  (Emitted(k, m) <=>
                      Hr[m].timestamp - Hr[k].timestamp >= args.min_duration_minutes)
        /\ \A n \in 1..Len(elevated_periods) :
              \/ \E k, m \in 1..Len(Hr) :
                    /\ Opens(k) /\ ClosedBy(k, m)
                    /\ elevated_periods[n].start_time = Hr[k].timestamp
                    /\ elevated_periods[n].end_time = Hr[m].timestamp
              \/ /\ n = Len(elevated_periods)
                 /\ Hr[Len(Hr)].heart_rate >= args.threshold
                 /\ elevated_periods[n].end_time = Hr[Len(Hr)].timestamp
        /\ \A n \in 1..(Len(elevated_periods) - 1) :
              elevated_periods[n].end_time < elevated_periods[n + 1].start_time

\* A run that is too short and is dropped, then a run of exactly the minimum
\* duration that is emitted with its own start.
C9_Witness ==
    /\ pc = "done"
    /\ \E k1, m1, k2, m2 \in 1..Len(Hr) :
          /\ Opens(k1) /\ ClosedBy(k1, m1) /\ m1 < k2
          /\ Opens(k2) /\ ClosedBy(k2, m2)
          /\ Hr[m1].timestamp - Hr[k1].timestamp < args.min_duration_minutes
          /\ Hr[m2].timestamp - Hr[k2].timestamp = args.min_duration_minutes
          /\ ~Emitted(k1, m1)
          /\ Emitted(k2, m2)

\* The series [100,100,130,130,130,100] at 1-minute spacing, threshold 120,
\* minimum duration 2.
C10_Input ==
    /\ args.threshold = 120
    /\ args.min_duration_minutes = 2
    /\ Len(Hr) = 6
    /\ \A i \in 1..6 :
          /\ Hr[i].timestamp = Hr[1].timestamp + (i - 1)
          /\ Hr[i].heart_rate = IF i \in {3, 4, 5} THEN 130 ELSE 100

\* C10: that series yields exactly one interval, spanning the 130-samples,
\* with duration_minutes = 2 and average = 130.
C10_Example ==
    (pc = "done" /\ C10_Input) =>
        /\ Len(elevated_periods) = 1
        /\ elevated_periods[1].start_time = Hr[3].timestamp
        /\ elevated_periods[1].end_time = Hr[5].timestamp
        /\ elevated_periods[1].duration_minutes = 2
        /\ EqualTo(elevated_periods[1].average_heart_rate, 130, 1)

\* C10 as amended: that series yields exactly one interval; it runs from the
\* first 130-sample to the closing 100-sample, so duration_minutes = 3 and the
\* average, taken over the three 130-samples and the closing sample, is 122.5.
C10_ExampleAsComputed ==
    (pc = "done" /\ C10_Input) =>
        /\ Len(elevated_periods) = 1
        /\ elevated_periods[1].start_time = Hr[3].timestamp
        /\ elevated_periods[1].end_time = Hr[6].timestamp
        /\ elevated_periods[1].duration_minutes = 3
        /\ EqualTo(elevated_periods[1].average_heart_rate, 245, 2)

C10_Witness == pc = "done" /\ C10_Input /\ elevated_periods # <<>>

----------------------------------------------------------------------------
(* C11: detector, end of the series                                        *)

\* Sample k opens an interval that no later sample closes.
OpenAtEnd(k) ==
    /\ Opens(k)
    /\ \A n \in k..Len(Hr) : Hr[n].heart_rate >= args.threshold

\* The last entry of the output runs from sample k to the last sample.
EmittedAtEnd(k) ==
    /\ elevated_periods # <<>>
    /\ LET last == elevated_periods[Len(elevated_periods)]
       IN  /\ last.start_time = Hr[k].timestamp
           /\ last.end_time = Hr[Len(Hr)].timestamp
           /\ last.duration_minutes = Hr[Len(Hr)].timestamp - Hr[k].timestamp

\* C11: an interval that is still open when the series is exhausted is closed
\* at the last sample's timestamp and emitted iff (last timestamp - interval
\* start) >= min_duration_minutes; an empty series and a series that never
\* reaches the threshold yield an empty output.
C11_EndOfSeries ==
    pc = "done" =>
        /\ \A k \in 1..Len(Hr) :
              OpenAtEnd(k) =>
                  /\ EmittedAtEnd(k) <=>
                         Hr[Len(Hr)].timestamp - Hr[k].timestamp
                             >= args.min_duration_minutes
                  /\ \A e \in Range(elevated_periods) :
                         e.end_time > Hr[k].timestamp => EmittedAtEnd(k)
        /\ Len(Hr) = 0 => elevated_periods = <<>>
        /\ (\A n \in 1..Len(Hr) : Hr[n].heart_rate < args.threshold) =>
               elevated_periods = <<>>

\* After an interval closed by a sample, a run that lasts to the end of the
\* series for exactly the minimum duration and is emitted.
C11_Witness ==
    /\ pc = "done"
    /\ Len(elevated_periods) = 2
    /\ \E k \in 1..Len(Hr) :
          /\ OpenAtEnd(k)
          /\ Hr[Len(Hr)].timestamp - Hr[k].timestamp = args.min_duration_minutes
          /\ EmittedAtEnd(k)

----------------------------------------------------------------------------
(* C12 .. C17: evaluate on dicts of any content                            *)

\* The timestamps of the entries of a list, under the given keys.
StampsOf(items, keys) ==
    UNION {{items[i][k] : k \in keys \cap DOMAIN items[i]} : i \in 1..Len(items)}

\* Every timestamp in the promise and in the evidence.
AllStamps ==
    {promise[k] : k \in {"start_date", "end_date"} \cap DOMAIN promise}
    \cup StampsOf(Get(evidence, "exercise_sessions", <<>>), {"start_time", "end_time"})
    \cup StampsOf(Get(evidence, "elevated_hr_periods", <<>>), {"start_time", "end_time"})
    \cup StampsOf(Get(evidence, "heart_rate_data", <<>>), {"timestamp"})

\* Every entry of the evidence has its timestamps.
EvidenceStamped ==
    /\ \A x \in Range(Get(evidence, "exercise_sessions", <<>>)) :
          {"start_time", "end_time"} \subseteq DOMAIN x
    /\ \A x \in Range(Get(evidence, "elevated_hr_periods", <<>>)) :
          {"start_time", "end_time"} \subseteq DOMAIN x
    /\ \A x \in Range(Get(evidence, "heart_rate_data", <<>>)) : "timestamp" \in DOMAIN x

\* The name of the promise's type as a text; "None" for a promise without one.
TypeName == IF "type" \in DOMAIN promise THEN promise.type ELSE "None"

KnownTypes == {"exercise_frequency", "exercise_duration", "exercise_consistency"}

\* C12: for a promise whose type is not a known type, or is missing, evaluate
\* raises nothing and returns fulfilled = false, confidence = 0.0, a reasoning
\* that contains the type's name and empty details, whatever the promise's
\* other fields and the evidence are.
C12_UnknownType ==
    (pc # "ready" /\ TypeName \notin KnownTypes) =>
        /\ pc = "done"
        /\ raised = "none"
        /\ verdict.fulfilled = FALSE
        /\ verdict.confidence = 0
        /\ \E i \in 1..Len(verdict.reasoning) : verdict.reasoning[i] = TypeName
        /\ verdict.details = <<>>

\* An unknown type in a promise whose start_date is not a timestamp, with a
\* session in the evidence.
C12_Witness ==
    /\ pc = "done"
    /\ TypeName = "custom"
    /\ promise.start_date = NotIso
    /\ Len(Get(evidence, "exercise_sessions", <<>>)) > 0
    /\ verdict.reasoning = <<"Unknown promise type: ", "custom">>

\* C13: with well-formed timestamps evaluate raises nothing and returns a
\* verdict with the four fields; an unrecognised period, an absent start_date
\* or end_date, a parameter of an unexpected type give a failure verdict.
C13_AlwaysAVerdict ==
    (pc # "ready" /\ NotIso \notin AllStamps /\ EvidenceStamped) =>
        /\ pc = "done"
        /\ raised = "none"
        /\ DOMAIN verdict = {"fulfilled", "confidence", "reasoning", "details"}
        /\ (\/ {"start_date", "end_date"} \ DOMAIN promise # {}
            \/ Get(promise, "period", "week") \notin {"day", "week", "month"}
            \/ \E k \in NumberKeys \cap DOMAIN promise : promise[k] = AString)
           => ~verdict.fulfilled

\* C15: a timestamp that is not well-formed, anywhere in the promise or in the
\* evidence, makes evaluate raise; no verdict is returned.
C15_MalformedRaises ==
    (pc # "ready" /\ NotIso \in AllStamps) =>
        /\ pc = "raised"
        /\ raised # "none"

\* The promise with every parameter it leaves out given its default.
WithExplicitDefaults(p) ==
    [k \in DOMAIN p \cup {"frequency", "period", "heart_rate_threshold",
                          "duration_minutes", "max_gap_days"} |->
        IF k \in DOMAIN p THEN p[k]
        ELSE IF k = "frequency" THEN 1
        ELSE IF k = "period" THEN "week"
        ELSE IF k = "heart_rate_threshold" THEN 120
        ELSE IF k = "duration_minutes" THEN 25
        ELSE 7]

\* C16: a promise that leaves out frequency, period, heart_rate_threshold,
\* duration_minutes or max_gap_days is evaluated as the promise that gives the
\* default (1, "week", 120, 25, 7) explicitly: the same verdict, and no error
\* that the explicit promise does not have.
C16_DefaultsApply ==
    (pc # "ready" /\ TypeName \in KnownTypes) =>
        /\ [kind |-> pc, raised |-> raised, verdict |-> verdict]
               = EvaluateOutcome(WithExplicitDefaults(promise), evidence)
        /\ ({"type", "start_date", "end_date"} \subseteq DOMAIN promise
            /\ EvaluateOutcome(WithExplicitDefaults(promise), evidence).kind = "done")
           => pc = "done"

\* A frequency promise without `frequency`, fulfilled by one session in its
\* only period.
C16_Witness ==
    /\ pc = "done"
    /\ TypeName = "exercise_frequency"
    /\ "frequency" \notin DOMAIN promise
    /\ verdict.fulfilled
    /\ verdict.details.total_periods = 1
    /\ verdict.details.periods[1].sessions_count = 1
    /\ verdict.details.periods[1].required_count = 1

\* C17: every verdict of the rule based evaluator for a frequency, duration
\* or consistency promise has confidence exactly 1.0.
C17_FullConfidence ==
    (pc = "done" /\ TypeName \in KnownTypes) => verdict.confidence = 100

\* A consistency verdict that found a gap.
C17_Witness ==
    /\ pc = "done"
    /\ TypeName = "exercise_consistency"
    /\ ~verdict.fulfilled
    /\ verdict.details.gaps_found >= 1
    /\ verdict.confidence = 100

----------------------------------------------------------------------------
(* C14: the generation loop                                                *)

\* C14: for start <= end and every value of period, each iteration of the
\* generation loop of _group_by_period moves its cursor forward, and so the
\* loop ends after finitely many iterations.
C14_CursorAdvances ==
    [][(pc = "loop" /\ pc' = "loop") => cursor' > cursor]_vars

----------------------------------------------------------------------------
(* C18: interpretive evaluator                                             *)

\* C18: every verdict of LLMEvaluator.evaluate has a confidence in [0, 1]
\* that is strictly below 1.0.
C18_LlmConfidenceBelowOne ==
    pc = "done" =>
        /\ 0 <= verdict.confidence
        /\ verdict.confidence <= 100
        /\ verdict.confidence < 100

\* A verdict for a promise of a type the mock has no heuristic for.
C18_Witness ==
    /\ pc = "done"
    /\ TypeName = "exercise_consistency"
    /\ verdict.fulfilled
    /\ verdict.confidence = 70

----------------------------------------------------------------------------
(* C20: three sessions a week over two calendar weeks                      *)

\* C20: frequency = 3, period = "week", a window from the Monday of week 1 to
\* the Sunday of week 2, three sessions that start in week 1 and two that
\* start in week 2, at any time of day: fulfilled = false,
\* fulfilled_periods = 1, total_periods = 2.
C20_TwoWeeks ==
    pc = "done" =>
        /\ verdict.fulfilled = FALSE
        /\ verdict.details.fulfilled_periods = 1
        /\ verdict.details.total_periods = 2

----------------------------------------------------------------------------
(* C27: detector output against the duration evaluator's filter           *)

\* The samples with a timestamp in [a, b].
SamplesIn(a, b) == {n \in 1..Len(Hr) : a <= Hr[n].timestamp /\ Hr[n].timestamp <= b}

\* C27: every interval the detector emits for threshold T and minimum
\* duration D has average_heart_rate >= T and duration_minutes >= D, and so
\* passes the filter of the duration evaluator for the same T and D.
C27_EmittedPassFilter ==
    pc = "done" =>
        /\ \A e \in Range(elevated_periods) :
              /\ AtLeast(e.average_heart_rate, args.threshold)
              /\ e.duration_minutes >= args.min_duration_minutes
        /\ QualifyingPeriods(elevated_periods, args.threshold, args.min_duration_minutes)
               = elevated_periods

\* C27 as amended: every emitted interval has duration_minutes = end - start
\* >= D and an average taken over every sample in [start, end]; when all
\* those samples are >= T (the interval was closed by the end of the series)
\* the average is >= T, and an interval closed by a sample < T has that sample
\* in its average, which may then be < T: exactly the emitted intervals with
\* average >= T pass the evaluator's filter.
C27_EmittedDuration ==
    pc = "done" =>
        /\ \A e \in Range(elevated_periods) :
              /\ e.duration_minutes = e.end_time - e.start_time
              /\ e.duration_minutes >= args.min_duration_minutes
              /\ e.average_heart_rate[2] = Cardinality(SamplesIn(e.start_time, e.end_time))
              /\ e.average_heart_rate[1] =
                     SumSeq([n \in 1..Len(Hr) |->
                                IF n \in SamplesIn(e.start_time, e.end_time)
                                  THEN Hr[n].heart_rate ELSE 0], 1)
              /\ (\A n \in SamplesIn(e.start_time, e.end_time) :
                      Hr[n].heart_rate >= args.threshold)
                 => AtLeast(e.average_heart_rate, args.threshold)
        /\ QualifyingPeriods(elevated_periods, args.threshold, args.min_duration_minutes)
               = SelectSeq(elevated_periods,
                           LAMBDA e : AtLeast(e.average_heart_rate, args.threshold))

\* An emitted interval of exactly the minimum duration whose average is below
\* the threshold, and one that lasts to the end of the series.
C27_Witness ==
    /\ pc = "done"
    /\ Len(elevated_periods) = 2
    /\ elevated_periods[1].duration_minutes = args.min_duration_minutes
    /\ ~AtLeast(elevated_periods[1].average_heart_rate, args.threshold)
    /\ AtLeast(elevated_periods[2].average_heart_rate, args.threshold)
    /\ elevated_periods[2].end_time = Hr[Len(Hr)].timestamp

----------------------------------------------------------------------------
(* C28: consistency evaluator, overlapping sessions                        *)

\* C28: every recorded gap is free of exercise: no supplied session's
\* [start_time, end_time] overlaps the open interval (gap_start, gap_end).
C28_GapsFreeOfExercise ==
    pc = "done" =>
        \A n \in 1..Len(verdict.details.gaps) :
            \A s \in Range(evidence.exercise_sessions) :
                ~(/\ s.start_time < verdict.details.gaps[n].gap_end
                  /\ s.end_time > verdict.details.gaps[n].gap_start)

----------------------------------------------------------------------------
(* C29: details of the frequency and duration verdicts                     *)

\* The supplied elevated intervals that pass the filter of the promise.
PassingFilter ==
    LET supplied == Get(evidence, "elevated_hr_periods", <<>>)
    IN  {j \in 1..Len(supplied) :
            /\ AtLeast(supplied[j].average_heart_rate,
                       Get(promise, "heart_rate_threshold", 120))
            /\ supplied[j].duration_minutes >= Get(promise, "duration_minutes", 25)}

\* The count reported for the i-th period of the details.
ReportedCount(i) ==
    IF TypeName = "exercise_frequency"
      THEN verdict.details.periods[i].sessions_count
      ELSE verdict.details.periods[i].qualifying_sessions

\* C29: in every frequency and duration verdict total_periods is the number
\* of entries of details.periods, fulfilled_periods the number of entries with
\* fulfilled = true, 0 <= fulfilled_periods <= total_periods, the per-period
\* counts sum to at most the number of supplied (for duration: qualifying)
\* items, and for duration qualifying_sessions counts every interval that
\* passed the filter, bucketed or not.
C29_DetailsConsistent ==
    (pc = "done" /\ TypeName \in {"exercise_frequency", "exercise_duration"}) =>
        LET d == verdict.details
        IN  /\ d.total_periods = Len(d.periods)
            /\ d.fulfilled_periods =
                   Cardinality({i \in 1..Len(d.periods) : d.periods[i].fulfilled})
            /\ 0 <= d.fulfilled_periods
            /\ d.fulfilled_periods <= d.total_periods
            /\ SumSeq([i \in 1..Len(d.periods) |-> ReportedCount(i)], 1) <=
                   (IF TypeName = "exercise_frequency"
                      THEN Len(Get(evidence, "exercise_sessions", <<>>))
                      ELSE Cardinality(PassingFilter))
            /\ TypeName = "exercise_duration" =>
                   d.qualifying_sessions = Cardinality(PassingFilter)

\* A duration verdict whose one qualifying interval is in no period.
C29_Witness ==
    /\ pc = "done"
    /\ TypeName = "exercise_duration"
    /\ verdict.details.qualifying_sessions = 1
    /\ verdict.details.total_periods >= 1
    /\ \A i \in 1..Len(verdict.details.periods) :
          verdict.details.periods[i].qualifying_sessions = 0

----------------------------------------------------------------------------
(* C30: degenerate windows                                                 *)

\* C30: for a frequency or duration promise with end_date before start_date
\* no period is generated and the verdict is fulfilled = false with
\* total_periods = 0 and fulfilled_periods = 0; for start_date = end_date
\* exactly one period is generated.
C30_DegenerateWindow ==
    pc = "done" =>
        /\ promise.end_date < promise.start_date =>
              /\ periods = <<>>
              /\ verdict.details.periods = <<>>
              /\ verdict.fulfilled = FALSE
              /\ verdict.details.total_periods = 0
              /\ verdict.details.fulfilled_periods = 0
        /\ promise.end_date = promise.start_date =>
              /\ Len(periods) = 1
              /\ verdict.details.total_periods = 1

\* A window that ends before it starts, with an item at its start.
C30_Witness ==
    /\ pc = "done"
    /\ promise.end_date < promise.start_date
    /\ \E j \in 1..Len(grouped) : grouped[j].start_time = promise.start_date
    /\ ~verdict.fulfilled
    /\ verdict.details.total_periods = 0

\* The name was given to register in one of the first `at` calls
RegisteredBefore(name, at) == \E i \in 1..at : calls[i].name = name

\* The class given in the last of the first `at` register calls for the name
LastRegistered(name, at) ==
    LET i == CHOOSE j \in 1..at :
                 /\ calls[j].name = name
                 /\ \A k \in (j + 1)..at : calls[k].name # name
    IN  calls[i].evaluator_class

\* C21: get_evaluator(name) returns an evaluator instance if and only if the
\* name was registered before the lookup (an instance of the class registered
\* last under that name), and returns None without raising otherwise;
\* SelfPromiseService raises ValueError exactly when the lookup of its
\* evaluator_type gave None, and keeps an evaluator instance when it does not.
C21_RegistryLookup ==
    /\ ("name" \in DOMAIN lookup /\ lookup.kwargs = {}) =>
          /\ lookup.raised = "none"
          /\ (lookup.returned # NoneObject) <=> RegisteredBefore(lookup.name, lookup.at)
          /\ RegisteredBefore(lookup.name, lookup.at) =>
                 lookup.returned = Instance(LastRegistered(lookup.name, lookup.at))
    /\ "evaluator_type" \in DOMAIN service =>
          /\ service.stage = "evaluator" =>
                 ((service.raised = "ValueError") <=>
                      ~RegisteredBefore(service.evaluator_type, service.at))
          /\ service.raised = "none" =>
                 service.evaluator = Instance(LastRegistered(service.evaluator_type, service.at))

C21_Witness ==
    /\ "name" \in DOMAIN lookup
    /\ lookup.kwargs = {}
    /\ lookup.name = "custom"
    /\ lookup.returned = Instance("LLMEvaluator")
    /\ "evaluator_type" \in DOMAIN service
    /\ service.evaluator_type = "rule_based"
    /\ service.stage = "evaluator"
    /\ service.raised = "ValueError"

\* C22: once the evaluator modules have been imported the registry table is
\* immutable: no step adds, replaces or removes an entry, so a name selects the
\* same class at any two later points.
C22_TableImmutable == [][imported = Modules => evaluators' = evaluators]_vars

\* create-promise has run and has called the service
Created == pc = "done" /\ "before" \in DOMAIN cli_run /\ cli_run.service_called

\* No tracker was connected when create-promise started
NoTracker == ~Truthy(LoadTrackerConfig(cli_run.before))

\* The auto-evidence setting is true only if the tracker configuration can be
\* loaded; declining the prompt gives false and no write of trackers.json;
\* without --auto-evidence the setting is false, nothing is read or written
AutoEvidenceCommon ==
    /\ cli_run.auto_evidence => Truthy(LoadTrackerConfig(trackers_json))
    /\ (cli_args.auto_evidence_flag /\ NoTracker /\ cli_args.answer = "n") =>
          /\ ~cli_run.auto_evidence
          /\ cli_run.writes = 0
          /\ trackers_json = cli_run.before
    /\ ~cli_args.auto_evidence_flag =>
          /\ ~cli_run.auto_evidence
          /\ cli_run.reads = 0
          /\ cli_run.writes = 0
          /\ trackers_json = cli_run.before

\* C23 as stated: in addition, accepting the prompt always connects the mockfit
\* tracker, writes trackers.json and keeps the setting true.
C23_AutoEvidenceSetting ==
    Created =>
        /\ AutoEvidenceCommon
        /\ (cli_args.auto_evidence_flag /\ NoTracker /\ cli_args.answer = "y") =>
              /\ cli_run.auto_evidence
              /\ cli_run.writes = 1
              /\ trackers_json = "mockfit"

\* C23: the auto-evidence setting given to the service is true only if the
\* tracker configuration can be loaded; declining the prompt gives false and
\* writes nothing; accepting it connects mockfit, writes trackers.json and
\* keeps the setting true when the file can be written, and gives false with
\* the file untouched when connecting raises; with --no-auto-evidence the
\* setting is false and the configuration is neither read nor written.
C23_AutoEvidenceOrFallback ==
    Created =>
        /\ AutoEvidenceCommon
        /\ (cli_args.auto_evidence_flag /\ NoTracker /\ cli_args.answer = "y") =>
              IF cli_args.disk = "ok"
                THEN /\ cli_run.auto_evidence
                     /\ cli_run.writes = 1
                     /\ trackers_json = "mockfit"
                ELSE /\ ~cli_run.auto_evidence
                     /\ cli_run.writes = 0
                     /\ trackers_json = cli_run.before

C23_Witness ==
    /\ Created
    /\ cli_args.auto_evidence_flag
    /\ cli_run.before = "corrupt"
    /\ cli_args.answer = "y"
    /\ cli_run.auto_evidence
    /\ trackers_json = "mockfit"

\* create_promise has returned or raised
CreateDone == pc = "done" /\ "log" \in DOMAIN create_run

\* The places of the log with a transaction of the method / with an event
Sends(method) ==
    {i \in 1..Len(create_run.log) :
        create_run.log[i].kind = "send" /\ create_run.log[i].method = method}

Events == {i \in 1..Len(create_run.log) : create_run.log[i].kind = "event"}

\* C24: a deposit transaction is sent only after a PromiseCreated event with a
\* promiseId was retrieved and carries that promiseId; when no promiseId is
\* retrieved the call raises and sends no deposit; the promise_id and the
\* create_tx_hash it returns are those of one createPromise transaction.
C24_DepositAfterEvent ==
    CreateDone =>
        /\ \A d \in Sends("deposit") :
               \E e \in Events :
                   /\ e < d
                   /\ create_run.log[d].promiseId = create_run.log[e].promiseId
        /\ Events = {} =>
               /\ create_run.raised # "none"
               /\ Sends("deposit") = {}
        /\ create_run.raised = "none" =>
               /\ \E c \in Sends("createPromise"), e \in Events :
                      /\ c < e
                      /\ create_run.log[c].tx_hash = create_run.returned.create_tx_hash
                      /\ create_run.log[e].tx_hash = create_run.returned.create_tx_hash
                      /\ create_run.log[e].promiseId = create_run.returned.promise_id
               /\ \E d \in Sends("deposit") :
                      /\ create_run.log[d].tx_hash = create_run.returned.tx_hash
                      /\ create_run.log[d].promiseId = create_run.returned.promise_id

C24_Witness ==
    /\ CreateDone
    /\ create_run.raised = "none"
    /\ Cardinality(Sends("createPromise")) = 2
    /\ create_run.returned.create_tx_hash = 2
    /\ create_run.returned.promise_id = PromiseIdOf(2)

\* C25: one call of create_promise submits at most one createPromise
\* transaction.
C25_OneCreateTransaction == CreateDone => Cardinality(Sends("createPromise")) <= 1

\* The node lets attempt k retry: the transaction is missing, the wait times
\* out or raises
Retries(k) == node[k].tx = "none" \/ node[k].receipt \in {"timeout", "error"}

\* Attempt k obtains a receipt of a successful transaction with the event, and
\* the contract's ABI is known
Succeeds(k) ==
    /\ node[k].tx # "none"
    /\ node[k].receipt = "event"
    /\ receipt_args.abi_cached

\* C26: get_event_from_receipt raises nothing and waits for the receipt at most
\* max_attempts times, in attempt k with timeout initial_timeout * 2^(k-1); it
\* returns the arguments of the event when an attempt, reached through attempts
\* that could be retried, obtains the receipt of a successful transaction with
\* the event, and None in every other case.
C26_EventOrNone ==
    (pc = "done" /\ "returned" \in DOMAIN receipt_run) =>
        /\ receipt_run.raised = "none"
        /\ Len(receipt_run.waits) <= receipt_args.max_attempts
        /\ \A i \in 1..Len(receipt_run.waits) :
               /\ receipt_run.waits[i].attempt \in 1..receipt_args.max_attempts
               /\ receipt_run.waits[i].timeout =
                      receipt_args.initial_timeout * (2 ^ (receipt_run.waits[i].attempt - 1))
               /\ \A j \in 1..(i - 1) :
                      receipt_run.waits[j].attempt < receipt_run.waits[i].attempt
        /\ IF \E k \in 1..receipt_args.max_attempts :
                  Succeeds(k) /\ \A j \in 1..(k - 1) : Retries(j)
             THEN receipt_run.returned = EventArgs(receipt_args.tx_hash)
             ELSE receipt_run.returned = NoneObject

C26_Witness ==
    /\ pc = "done"
    /\ "returned" \in DOMAIN receipt_run
    /\ node[1].receipt = "timeout"
    /\ node[1].tx = "error"
    /\ node[2].receipt = "error"
    /\ Len(receipt_run.waits) = 3
    /\ receipt_run.waits[3].timeout = 120
    /\ receipt_run.returned = EventArgs(receipt_args.tx_hash)

====
